---------------------------- MODULE Spec2Model ----------------------------
(***************************************************************************)
(* Model of the trend scoring engine of Trends-Module-POC:                 *)
(*   backend/app/services/trending_score_calculator.py                     *)
(*   backend/app/services/trend_aggregator_service.py                      *)
(*                                                                         *)
(* Numbers.  Python floats are modelled as exact rationals <<n, d>> with   *)
(* d > 0 in lowest terms, so a property stated "within 1e-6" holds      *)
(* exactly.  A float division by zero raises ZeroDivisionError in Python;  *)
(* the scorers below report it as a raised call, never as a value.         *)
(*                                                                         *)
(* Time.  Instants are whole hours since the epoch.  Every instant of the  *)
(* model (clock, item timestamps) is a multiple of the recency half-life   *)
(* (24 h), which keeps 0.5^(age/24) a rational.                            *)
(***************************************************************************)
EXTENDS Integers, Sequences, FiniteSets, TLC

VARIABLES
    now,        \* wall clock (datetime.now), hours
    calc,       \* the long-lived TrendingScoreCalculator: current_time and the five maxima
    pool,       \* the normalized items the ingestion side can deliver in this run
    call,       \* the last scoring call: entry point, platform argument, the list passed in
    trends,     \* the list object of the last call, as the call left it
    outcome,    \* "none" | "returned" | "raised" (ZeroDivisionError escaped the call)
    response,   \* the trends of the last /unified-trends response (top_trends)
    raw,        \* what the three platform services answer to the request in progress
    flow        \* the /unified-trends request in progress: its position and its locals

vars == <<now, calc, pool, call, trends, outcome, response, raw, flow>>

----------------------------------------------------------------------------
(* Exact rational arithmetic                                               *)

Abs(i) == IF i < 0 THEN -i ELSE i

RECURSIVE Gcd(_, _)
Gcd(a, b) == IF b = 0 THEN a ELSE Gcd(b, a % b)

Rat(n, d) ==
    LET g == Gcd(Abs(n), Abs(d))
        s == IF d < 0 THEN -1 ELSE 1
    IN  <<(s * n) \div g, (s * d) \div g>>

R(i) == <<i, 1>>
Zero == R(0)

RAdd(a, b) ==
    LET g == Gcd(a[2], b[2])
    IN  Rat(a[1] * (b[2] \div g) + b[1] * (a[2] \div g), (a[2] \div g) * b[2])

RNeg(a) == <<-a[1], a[2]>>
RSub(a, b) == RAdd(a, RNeg(b))

RMul(a, b) ==
    LET x == Rat(a[1], b[2])
        y == Rat(b[1], a[2])
    IN  <<x[1] * y[1], x[2] * y[2]>>

\* defined for b # 0 only; every caller tests its denominator first
RDiv(a, b) == RMul(a, Rat(b[2], b[1]))

RLt(a, b) == LET g == Gcd(a[2], b[2]) IN a[1] * (b[2] \div g) < b[1] * (a[2] \div g)
RLe(a, b) == LET g == Gcd(a[2], b[2]) IN a[1] * (b[2] \div g) <= b[1] * (a[2] \div g)
RMax(a, b) == IF RLt(a, b) THEN b ELSE a
RMin(a, b) == IF RLt(b, a) THEN b ELSE a
RAbs(a) == <<Abs(a[1]), a[2]>>

RECURSIVE RSum(_)
RSum(s) == IF s = <<>> THEN Zero ELSE RAdd(Head(s), RSum(Tail(s)))

RECURSIVE RMaxSeq(_)
RMaxSeq(s) == IF Len(s) = 1 THEN s[1] ELSE RMax(s[1], RMaxSeq(Tail(s)))

RECURSIVE RMinSeq(_)
RMinSeq(s) == IF Len(s) = 1 THEN s[1] ELSE RMin(s[1], RMinSeq(Tail(s)))

\* round(x, 2): nearest multiple of 1/100, a half going to the even neighbour
Round2(a) ==
    LET x == RMul(a, R(100))
        f == x[1] \div x[2]
        r == 2 * (x[1] % x[2])
        up == r > x[2] \/ (r = x[2] /\ f % 2 = 1)
    IN  Rat(IF up THEN f + 1 ELSE f, 100)

----------------------------------------------------------------------------
(* Values of the item fields                                               *)

\* Optional number (Python None / a number): <<>> is None, <<t>> is t
None == <<>>
Some(t) == <<t>>

\* ISO date strings: the empty string, an unparseable one, or a well-formed
\* timezone-aware instant t (in hours)
EmptyStr == [text |-> "", t |-> 0]
BadStr == [text |-> "not-a-date", t |-> 0]
IsoStr(t) == [text |-> "iso", t |-> t]

\* datetime.fromisoformat(s.replace('Z', '+00:00')) inside try/except: None when it raises
FromIso(s) == IF s.text = "iso" THEN Some(s.t) ELSE None

\* Words are sequences of characters; a text is the sequence of its
\* whitespace-separated words (what str.split() yields)
Upper == [c \in {"E", "T", "S"} |-> CASE c = "E" -> "e" [] c = "T" -> "t" [] c = "S" -> "s"]
LowerChar(c) == IF c \in DOMAIN Upper THEN Upper[c] ELSE c
LowerWord(w) == [i \in 1..Len(w) |-> LowerChar(w[i])]

RECENCY_HALF_LIFE_HOURS == 24
Day == RECENCY_HALF_LIFE_HOURS

\* bounds of the model
MaxBatch == 3
MaxTicks == 1
MaxLimit == 2

\* the calculator is constructed at this instant; Tick moves the clock on
ConstructedAt == 3 * Day

----------------------------------------------------------------------------
(* Normalized items (TrendItem): what the normalizers of the aggregator    *)
(* service build.  A key the normalizer of a platform does not set is      *)
(* never read by the scorers of that platform except through .get with     *)
(* the default recorded here ('' for query, [] for trendingHistogram).     *)

NoMap == [k \in {} |-> Zero]

Unscored ==
    [volume_score |-> None, engagement_score |-> None, velocity_score |-> None,
     recency_score |-> None, cross_platform_score |-> None, trending_score |-> None,
     score_breakdown |-> NoMap, weights_used |-> NoMap]

Blank ==
    [platform |-> "", entity_type |-> "", id |-> "", query |-> <<>>, title |-> <<>>,
     name |-> <<>>, search_volume |-> 0, increase_percentage |-> 0,
     start_timestamp |-> None, active |-> TRUE, publishedAt |-> EmptyStr,
     viewCount |-> 0, likeCount |-> 0, commentCount |-> 0, rank |-> 0,
     videoCount |-> 0, followerCount |-> 0, likedCount |-> 0,
     trendingHistogram |-> <<>>, relatedVideos |-> <<>>,
     raw_data |-> TRUE, metadata |-> FALSE, c |-> Unscored]

\* _normalize_google_trends: one item per raw search trend
GoogleItem(id, words, volume, pct, started, isActive) ==
    [Blank EXCEPT !.platform = "google_trends", !.entity_type = "search_query",
                  !.id = id, !.query = words, !.title = words, !.name = words,
                  !.search_volume = volume, !.increase_percentage = pct,
                  !.start_timestamp = started, !.active = isActive]

\* _normalize_youtube_trends: one item per raw video
YouTubeItem(id, words, views, likes, comments, published) ==
    [Blank EXCEPT !.platform = "youtube", !.entity_type = "video",
                  !.id = id, !.title = words, !.name = words,
                  !.viewCount = views, !.likeCount = likes,
                  !.commentCount = comments, !.publishedAt = published]

\* f"#{name}": the hash sign joined to the first word of the name
HashTitle(words) ==
    IF words = <<>> THEN <<<<"#">>>>
    ELSE <<(<<"#">> \o Head(words))>> \o Tail(words)

\* _normalize_tiktok_trends, hashtags
HashtagItem(id, words, rk, views, videos, histogram) ==
    [Blank EXCEPT !.platform = "tiktok", !.entity_type = "hashtag",
                  !.id = id, !.name = words, !.title = HashTitle(words),
                  !.rank = rk, !.viewCount = views, !.videoCount = videos,
                  !.trendingHistogram = histogram]

\* _normalize_tiktok_trends, creators
CreatorItem(id, words, rk, followers, liked, videos) ==
    [Blank EXCEPT !.platform = "tiktok", !.entity_type = "creator",
                  !.id = id, !.name = words, !.title = words, !.rank = rk,
                  !.followerCount = followers, !.likedCount = liked,
                  !.relatedVideos = videos]

\* _normalize_tiktok_trends, sounds
SoundItem(id, words, rk, histogram) ==
    [Blank EXCEPT !.platform = "tiktok", !.entity_type = "sound",
                  !.id = id, !.name = words, !.title = words, !.rank = rk,
                  !.trendingHistogram = histogram]

\* _normalize_tiktok_trends, videos
VideoItem(id, words, rk) ==
    [Blank EXCEPT !.platform = "tiktok", !.entity_type = "video",
                  !.id = id, !.name = words, !.title = words, !.rank = rk]

----------------------------------------------------------------------------
(* TrendingScoreCalculator: state and component scorers                    *)

\* __init__: the construction instant and the five maxima, all 1
NewCalculator(t) ==
    [current_time |-> t,
     max_hashtag_views |-> R(1), max_hashtag_videos |-> R(1), max_hashtag_rank |-> R(1),
     max_sound_rank |-> R(1), max_video_rank |-> R(1)]

IsKind(t, kind) == t.platform = "tiktok" /\ t.entity_type = kind

IsHashtag(t) == IsKind(t, "hashtag")
IsSound(t) == IsKind(t, "sound")
IsVideo(t) == IsKind(t, "video")

RECURSIVE MaxOf(_)
MaxOf(s) == IF Len(s) = 1 THEN s[1] ELSE LET m == MaxOf(Tail(s)) IN IF s[1] > m THEN s[1] ELSE m

\* a variant that only ever raises the stored maxima
CalculateTiktokMaxValuesRunning(c, all) ==
    LET hs == SelectSeq(all, IsHashtag)
        ss == SelectSeq(all, IsSound)
        vs == SelectSeq(all, IsVideo)
        c1 == IF hs = <<>> THEN c
              ELSE [c EXCEPT !.max_hashtag_views =
                                 RMax(@, R(MaxOf([i \in 1..Len(hs) |-> hs[i].viewCount]))),
                             !.max_hashtag_videos =
                                 RMax(@, R(MaxOf([i \in 1..Len(hs) |-> hs[i].videoCount]))),
                             !.max_hashtag_rank =
                                 RMax(@, R(MaxOf([i \in 1..Len(hs) |-> hs[i].rank])))]
        c2 == IF ss = <<>> THEN c1
              ELSE [c1 EXCEPT !.max_sound_rank =
                                  RMax(@, R(MaxOf([i \in 1..Len(ss) |-> ss[i].rank])))]
    IN  IF vs = <<>> THEN c2
        ELSE [c2 EXCEPT !.max_video_rank =
                            RMax(@, R(MaxOf([i \in 1..Len(vs) |-> vs[i].rank])))]

\* _calculate_tiktok_max_values: a maximum is overwritten only when the batch
\* holds items of its entity type
CalculateTiktokMaxValues(c, all) ==
    LET hs == SelectSeq(all, IsHashtag)
        ss == SelectSeq(all, IsSound)
        vs == SelectSeq(all, IsVideo)
        c1 == IF hs = <<>> THEN c
              ELSE [c EXCEPT !.max_hashtag_views = R(MaxOf([i \in 1..Len(hs) |-> hs[i].viewCount])),
                             !.max_hashtag_videos = R(MaxOf([i \in 1..Len(hs) |-> hs[i].videoCount])),
                             !.max_hashtag_rank = R(MaxOf([i \in 1..Len(hs) |-> hs[i].rank]))]
        c2 == IF ss = <<>> THEN c1
              ELSE [c1 EXCEPT !.max_sound_rank = R(MaxOf([i \in 1..Len(ss) |-> ss[i].rank]))]
    IN  IF vs = <<>> THEN c2
        ELSE [c2 EXCEPT !.max_video_rank = R(MaxOf([i \in 1..Len(vs) |-> vs[i].rank]))]

\* _calculate_volume_score
CalculateVolumeScore(t) ==
    CASE t.platform = "google_trends" -> R(t.search_volume * 100)
      [] t.platform = "youtube" -> R(t.viewCount)
      [] IsKind(t, "hashtag") -> R(t.viewCount)
      [] IsKind(t, "creator") -> R(t.followerCount * 10)
      [] IsKind(t, "sound") -> R(t.rank)
      [] IsKind(t, "video") -> R(t.rank)
      [] OTHER -> Zero

\* _calculate_histogram_momentum: |least-squares slope| * 100 of the histogram
\* values against their positions 0, 1, 2, ...
CalculateHistogramMomentum(t) ==
    LET h == t.trendingHistogram
        n == Len(h)
        xm == Rat((n * (n - 1)) \div 2, n)
        ym == RDiv(RSum([i \in 1..n |-> R(h[i].value)]), R(n))
        num == RSum([i \in 1..n |-> RMul(RSub(R(i - 1), xm), RSub(R(h[i].value), ym))])
        den == RSum([i \in 1..n |-> RMul(RSub(R(i - 1), xm), RSub(R(i - 1), xm))])
    IN  IF n < 2 THEN Zero
        ELSE IF den = Zero THEN Zero
        ELSE RMul(RAbs(RDiv(num, den)), R(100))

Raised == [ok |-> FALSE, v |-> Zero]
Value(v) == [ok |-> TRUE, v |-> v]

\* 1 - rank / max_rank
RankNorm(rk, maxRank) == RSub(R(1), RDiv(R(rk), maxRank))

\* the hashtag branch of _calculate_engagement_score (lines 440-474)
HashtagEngagement(c, t) ==
    IF c.max_hashtag_views = Zero \/ c.max_hashtag_videos = Zero \/ c.max_hashtag_rank = Zero
    THEN Raised
    ELSE Value(RSum(<<RMul(Rat(45, 100), RDiv(R(t.viewCount), c.max_hashtag_views)),
                      RMul(Rat(30, 100), RDiv(R(t.videoCount), c.max_hashtag_videos)),
                      RMul(Rat(15, 100), RankNorm(t.rank, c.max_hashtag_rank)),
                      RMul(Rat(10, 100), CalculateHistogramMomentum(t))>>))

\* the creator branch of _calculate_engagement_score (lines 476-485):
\* likedCount / followerCount * 100, the division unguarded
CreatorEngagement(t) ==
    IF t.followerCount = 0 THEN Raised
    ELSE Value(RMul(Rat(t.likedCount, t.followerCount), R(100)))

\* the sound and video branches (lines 487-503)
RankEngagement(rk, maxRank) ==
    IF maxRank = Zero THEN Raised ELSE Value(RMul(RankNorm(rk, maxRank), R(100)))

\* _calculate_engagement_score: a value, or a ZeroDivisionError
CalculateEngagementScore(c, t) ==
    CASE t.platform = "google_trends" -> Value(R(t.increase_percentage))
      [] t.platform = "youtube" ->
            IF t.viewCount = 0 THEN Value(Zero)
            ELSE Value(RMul(Rat(t.likeCount + t.commentCount, t.viewCount), R(1000000)))
      [] IsKind(t, "hashtag") -> HashtagEngagement(c, t)
      [] IsKind(t, "creator") -> CreatorEngagement(t)
      [] IsKind(t, "sound") -> RankEngagement(t.rank, c.max_sound_rank)
      [] IsKind(t, "video") -> RankEngagement(t.rank, c.max_video_rank)
      [] OTHER -> Value(Zero)

\* the parseable createTime instants of a creator's related videos, in list order
\* (an empty createTime is skipped, an unparseable one is swallowed by except)
VideoTimes(videos) ==
    LET ok(v) == v.createTime.text # "" /\ FromIso(v.createTime) # None
        kept == SelectSeq(videos, ok)
    IN  [i \in 1..Len(kept) |-> kept[i].createTime.t]

RECURSIVE MinOf(_)
MinOf(s) == IF Len(s) = 1 THEN s[1] ELSE LET m == MinOf(Tail(s)) IN IF s[1] < m THEN s[1] ELSE m

\* a variant whose posting frequency counts the timestamped videos only
CreatorVelocityOfTimedVideos(t) ==
    LET vids == t.relatedVideos
        times == VideoTimes(vids)
        span == RMax(R(1), Rat(MaxOf(times) - MinOf(times), 24))
        views == RSum([i \in 1..Len(vids) |-> R(vids[i].viewCount)])
        likes == RSum([i \in 1..Len(vids) |-> R(vids[i].likedCount)])
        freq == RDiv(R(Len(times)), span)
    IN  IF Len(vids) >= 2 /\ Len(times) >= 2
        THEN Some(RSum(<<RMul(Rat(50, 100), RDiv(views, span)),
                         RMul(Rat(30, 100), RDiv(likes, span)),
                         RMul(RMul(Rat(20, 100), freq), R(100000))>>))
        ELSE None

\* the creator branch of _calculate_velocity_score (lines 626-675): None when
\* it falls through to the histogram
CreatorVelocity(t) ==
    LET vids == t.relatedVideos
        times == VideoTimes(vids)
        span == RMax(R(1), Rat(MaxOf(times) - MinOf(times), 24))
        views == RSum([i \in 1..Len(vids) |-> R(vids[i].viewCount)])
        likes == RSum([i \in 1..Len(vids) |-> R(vids[i].likedCount)])
        freq == RDiv(R(Len(vids)), span)
    IN  IF Len(vids) >= 2 /\ Len(times) >= 2
        THEN Some(RSum(<<RMul(Rat(50, 100), RDiv(views, span)),
                         RMul(Rat(30, 100), RDiv(likes, span)),
                         RMul(RMul(Rat(20, 100), freq), R(100000))>>))
        ELSE None

\* the histogram and rank branches of _calculate_velocity_score (lines 677-697)
HistogramVelocity(t) ==
    LET h == t.trendingHistogram
        growth == h[Len(h)].value - h[1].value
    IN  IF Len(h) >= 2
        THEN R((IF growth > 0 THEN growth ELSE 0) * 100)
        ELSE R((100 - t.rank) * 10)

\* the YouTube branch of _calculate_velocity_score (lines 587-620)
YouTubeVelocity(c, t) ==
    LET pub == FromIso(t.publishedAt)
        age == c.current_time - pub[1]
        hours == IF t.publishedAt.text # "" /\ pub # None
                 THEN (IF age > 1 THEN age ELSE 1)
                 ELSE 24
    IN  RAdd(RMul(Rat(t.viewCount, hours), Rat(7, 10)),
             RMul(Rat(t.likeCount + t.commentCount, hours), Rat(3, 10)))

\* the Google Trends branch of _calculate_velocity_score (lines 563-585)
GoogleVelocity(t) ==
    LET base == RMul(R(t.increase_percentage * 30), IF t.active THEN Rat(15, 10) ELSE R(1))
    IN  IF t.increase_percentage >= 1000 THEN RMul(base, Rat(12, 10)) ELSE base

\* _calculate_velocity_score
CalculateVelocityScore(c, t) ==
    CASE t.platform = "google_trends" -> GoogleVelocity(t)
      [] t.platform = "youtube" -> YouTubeVelocity(c, t)
      [] t.platform = "tiktok" ->
            IF t.entity_type = "creator" /\ CreatorVelocity(t) # None
            THEN CreatorVelocity(t)[1]
            ELSE HistogramVelocity(t)
      [] OTHER -> Zero

\* Python truthiness of an optional number: None and 0 are false
Falsy(ts) == ts = None \/ ts[1] = 0

\* the timestamp _calculate_recency_score resolves (lines 718-759)
RecencyTimestamp(t) ==
    LET times == VideoTimes(t.relatedVideos)
        creator == IF t.entity_type = "creator" /\ times # <<>> THEN Some(MaxOf(times)) ELSE None
        h == t.trendingHistogram
    IN  CASE t.platform = "google_trends" -> t.start_timestamp
          [] t.platform = "youtube" ->
                IF t.publishedAt.text # "" THEN FromIso(t.publishedAt) ELSE None
          [] t.platform = "tiktok" ->
                IF ~Falsy(creator) THEN creator
                ELSE IF h # <<>> /\ FromIso(h[Len(h)].date) # None THEN FromIso(h[Len(h)].date)
                ELSE creator
          [] OTHER -> None

\* a variant with a half-life of 12 hours
DecayTwiceAsFast(ageHours) == Rat(100, 4 ^ (ageHours \div RECENCY_HALF_LIFE_HOURS))

\* 100 * 0.5 ^ (age_hours / 24); ages are whole half-lives in this model
Decay(ageHours) == Rat(100, 2 ^ (ageHours \div RECENCY_HALF_LIFE_HOURS))

\* _calculate_recency_score: the age is taken from self.current_time
CalculateRecencyScore(c, t) ==
    LET ts == RecencyTimestamp(t)
        age == c.current_time - ts[1]
        score == Decay(IF age > 0 THEN age ELSE 0)
    IN  IF Falsy(ts) THEN R(70)
        ELSE RMax(Zero, RMin(R(100), score))

STOP_WORDS ==
    {<<"t", "h", "e">>, <<"a">>, <<"a", "n">>, <<"a", "n", "d">>, <<"o", "r">>,
     <<"b", "u", "t">>, <<"i", "n">>, <<"o", "n">>, <<"a", "t">>, <<"t", "o">>,
     <<"f", "o", "r">>, <<"o", "f">>, <<"v", "s">>, <<"x">>}

\* _extract_key_terms: the first non-empty of query, title, name; lowercased;
\* words longer than 2 characters that are no stop words
ExtractKeyTerms(t) ==
    LET text == IF t.query # <<>> THEN t.query ELSE IF t.title # <<>> THEN t.title ELSE t.name
    IN  {w \in {LowerWord(text[i]) : i \in 1..Len(text)} : Len(w) > 2 /\ w \notin STOP_WORDS}

TermsOverlapAboveFourTenths(terms1, terms2) ==
    /\ terms1 # {}
    /\ terms2 # {}
    /\ 10 * Cardinality(terms1 \cap terms2) >= 4 * Cardinality(terms1 \cup terms2)

\* _terms_overlap: Jaccard similarity at least 0.3
TermsOverlap(terms1, terms2) ==
    /\ terms1 # {}
    /\ terms2 # {}
    /\ 10 * Cardinality(terms1 \cap terms2) >= 3 * Cardinality(terms1 \cup terms2)

PlatformsFoundAfterSelf(self, all, i, found) ==
    found \cup {all[k].platform : k \in
                    {k \in (self + 1)..Len(all) :
                        TermsOverlap(ExtractKeyTerms(all[self]), ExtractKeyTerms(all[k]))}}

\* the loop of _calculate_cross_platform_score over all_trends from position i
RECURSIVE PlatformsFound(_, _, _, _)
PlatformsFound(self, all, i, found) ==
    IF i > Len(all) THEN found
    ELSE IF i = self \/ all[i].platform \in found
         THEN PlatformsFound(self, all, i + 1, found)
    ELSE IF TermsOverlap(ExtractKeyTerms(all[self]), ExtractKeyTerms(all[i]))
         THEN PlatformsFound(self, all, i + 1, found \cup {all[i].platform})
    ELSE PlatformsFound(self, all, i + 1, found)

\* _calculate_cross_platform_score for the item at position self of the batch
CalculateCrossPlatformScore(self, all) ==
    LET n == Cardinality(PlatformsFound(self, all, 1, {all[self].platform}))
    IN  IF ExtractKeyTerms(all[self]) = {} THEN Zero
        ELSE IF n = 1 THEN Zero
        ELSE IF n = 2 THEN R(50)
        ELSE R(100)

----------------------------------------------------------------------------
(* Normalization pass, weights, ranking                                    *)

Keys == {"volume", "engagement", "velocity", "recency", "cross_platform"}

\* _normalize_engagement_scores: min-max rescale of the Google Trends items'
\* raw engagement into the range of the other platforms' positive values
\* a variant that scales the search items into the range from 0 to the
\* largest engagement of the other platforms
NormalizeEngagementScoresFromZero(ts) ==
    LET isGoogle(t) == t.platform = "google_trends"
        isOther(t) == t.platform # "google_trends"
        isPositive(t) == t.platform # "google_trends" /\ RLt(Zero, t.c.engagement_score)
        google == SelectSeq(ts, isGoogle)
        positive == SelectSeq(ts, isPositive)
        others == [i \in 1..Len(positive) |-> positive[i].c.engagement_score]
        gs == [i \in 1..Len(google) |-> google[i].c.engagement_score]
        googleMin == RMinSeq(gs)
        googleRange == IF RMaxSeq(gs) # googleMin THEN RSub(RMaxSeq(gs), googleMin) ELSE R(1)
        scaled(t) == RMul(RDiv(RSub(t.c.engagement_score, googleMin), googleRange),
                          RMaxSeq(others))
    IN  IF SelectSeq(ts, isOther) = <<>> \/ google = <<>> \/ positive = <<>> THEN ts
        ELSE [i \in 1..Len(ts) |->
                IF isGoogle(ts[i]) THEN [ts[i] EXCEPT !.c.engagement_score = scaled(ts[i])]
                ELSE ts[i]]

\* _normalize_engagement_scores
NormalizeEngagementScores(ts) ==
    LET isGoogle(t) == t.platform = "google_trends"
        isOther(t) == t.platform # "google_trends"
        isPositive(t) == t.platform # "google_trends" /\ RLt(Zero, t.c.engagement_score)
        google == SelectSeq(ts, isGoogle)
        positive == SelectSeq(ts, isPositive)
        others == [i \in 1..Len(positive) |-> positive[i].c.engagement_score]
        gs == [i \in 1..Len(google) |-> google[i].c.engagement_score]
        otherMin == RMinSeq(others)
        otherRange == RSub(RMaxSeq(others), otherMin)
        googleMin == RMinSeq(gs)
        googleRange == IF RMaxSeq(gs) # googleMin THEN RSub(RMaxSeq(gs), googleMin) ELSE R(1)
        scaled(t) == RAdd(otherMin,
                          RMul(RDiv(RSub(t.c.engagement_score, googleMin), googleRange), otherRange))
    IN  IF SelectSeq(ts, isOther) = <<>> \/ google = <<>> \/ positive = <<>> THEN ts
        ELSE [i \in 1..Len(ts) |->
                IF isGoogle(ts[i]) THEN [ts[i] EXCEPT !.c.engagement_score = scaled(ts[i])]
                ELSE ts[i]]

\* a variant without the equal-share branch: a zero total leaves the zeros
NormalizeScoresNoEqualShare(ts, key) ==
    LET total == RSum([i \in 1..Len(ts) |-> ts[i].c[key]])
    IN  IF ts = <<>> \/ total = Zero THEN ts
        ELSE [i \in 1..Len(ts) |->
                [ts[i] EXCEPT !.c[key] = RMul(RDiv(ts[i].c[key], total), R(100))]]

\* a variant that takes each value as a percentage of the largest
NormalizeScoresOfLargest(ts, key) ==
    LET largest == RMaxSeq([i \in 1..Len(ts) |-> ts[i].c[key]])
    IN  IF ts = <<>> THEN ts
        ELSE IF largest = Zero
             THEN [i \in 1..Len(ts) |-> [ts[i] EXCEPT !.c[key] = Rat(100, Len(ts))]]
        ELSE [i \in 1..Len(ts) |->
                [ts[i] EXCEPT !.c[key] = RMul(RDiv(ts[i].c[key], largest), R(100))]]

\* _normalize_scores: percentage of the batch total; equal shares when the total is 0
NormalizeScores(ts, key) ==
    LET total == RSum([i \in 1..Len(ts) |-> ts[i].c[key]])
    IN  IF ts = <<>> THEN ts
        ELSE IF total = Zero
             THEN [i \in 1..Len(ts) |-> [ts[i] EXCEPT !.c[key] = Rat(100, Len(ts))]]
        ELSE [i \in 1..Len(ts) |->
                [ts[i] EXCEPT !.c[key] = RMul(RDiv(ts[i].c[key], total), R(100))]]

\* a weight row, in hundredths: Weights(10, 15, 30, 35, 10) is the dict
\* {volume: 0.10, engagement: 0.15, velocity: 0.30, recency: 0.35, cross_platform: 0.10}
Weights(vol, eng, vel, rec, cross) ==
    [volume |-> vol, engagement |-> eng, velocity |-> vel, recency |-> rec,
     cross_platform |-> cross]

\* a variant of the unified table whose sound row carries volume 0.10
UnifiedWeightsHeavySound(t) ==
    CASE t.platform = "google_trends" -> Weights(10, 15, 30, 35, 10)
      [] t.platform = "youtube" -> Weights(10, 35, 25, 20, 10)
      [] IsKind(t, "hashtag") -> Weights(15, 35, 25, 20, 5)
      [] IsKind(t, "creator") -> Weights(10, 30, 30, 20, 10)
      [] IsKind(t, "sound") -> Weights(10, 30, 30, 24, 15)
      [] IsKind(t, "video") -> Weights(1, 80, 1, 1, 17)
      [] OTHER -> Weights(25, 30, 20, 15, 10)

\* the weight table of calculate_universal_score_adaptive (lines 144-220)
UnifiedWeights(t) ==
    CASE t.platform = "google_trends" -> Weights(10, 15, 30, 35, 10)
      [] t.platform = "youtube" -> Weights(10, 35, 25, 20, 10)
      [] IsKind(t, "hashtag") -> Weights(15, 35, 25, 20, 5)
      [] IsKind(t, "creator") -> Weights(10, 30, 30, 20, 10)
      [] IsKind(t, "sound") -> Weights(1, 30, 30, 24, 15)
      [] IsKind(t, "video") -> Weights(1, 80, 1, 1, 17)
      [] OTHER -> Weights(25, 30, 20, 15, 10)

\* a variant of the single-platform table that keeps a cross-platform share
PlatformWeightsKeepingCross(platform, t) ==
    CASE platform = "google_trends" -> Weights(10, 15, 30, 35, 10)
      [] platform = "youtube" -> Weights(30, 25, 20, 15, 10)
      [] platform = "tiktok" /\ t.entity_type = "hashtag" -> Weights(20, 35, 25, 15, 5)
      [] platform = "tiktok" /\ t.entity_type = "creator" -> Weights(20, 30, 30, 10, 10)
      [] platform = "tiktok" /\ t.entity_type = "sound" -> Weights(0, 35, 35, 15, 15)
      [] platform = "tiktok" /\ t.entity_type = "video" -> Weights(0, 83, 0, 0, 17)
      [] platform = "tiktok" -> Weights(25, 30, 20, 15, 10)
      [] OTHER -> Weights(30, 25, 20, 15, 10)

\* the weight table of calculate_platform_specific_scores (lines 1025-1099):
\* the row follows the platform argument, and the item's entity type for TikTok
PlatformWeights(platform, t) ==
    CASE platform = "google_trends" -> Weights(10, 15, 35, 40, 0)
      [] platform = "youtube" -> Weights(35, 30, 20, 15, 0)
      [] platform = "tiktok" /\ t.entity_type = "hashtag" -> Weights(20, 35, 25, 20, 0)
      [] platform = "tiktok" /\ t.entity_type = "creator" -> Weights(20, 30, 30, 20, 0)
      [] platform = "tiktok" /\ t.entity_type = "sound" -> Weights(0, 35, 35, 30, 0)
      [] platform = "tiktok" /\ t.entity_type = "video" -> Weights(0, 100, 0, 0, 0)
      [] platform = "tiktok" -> Weights(30, 35, 20, 15, 0)
      [] OTHER -> Weights(35, 30, 20, 15, 0)

\* the component value a breakdown or weight key names
Component(t, key) ==
    CASE key = "volume" -> t.c.volume_score
      [] key = "engagement" -> t.c.engagement_score
      [] key = "velocity" -> t.c.velocity_score
      [] key = "recency" -> t.c.recency_score
      [] key = "cross_platform" -> t.c.cross_platform_score

\* weights[k] * component[k] summed over the keys given, rounded to 2 decimals
WeightedScore(t, w, keys) ==
    Round2(RDiv(RSum([i \in 1..Len(keys) |-> RMul(R(w[keys[i]]), Component(t, keys[i]))]),
                R(100)))

\* a variant that consumes the raw volume metric while it writes the score
FinishUnifiedConsumingVolume(t) ==
    LET w == UnifiedWeights(t)
    IN  [t EXCEPT !.c.trending_score =
                      WeightedScore(t, w, <<"volume", "engagement", "velocity",
                                            "recency", "cross_platform">>),
                  !.c.score_breakdown = [k \in Keys |-> Round2(Component(t, k))],
                  !.c.weights_used = w,
                  !.search_volume = 0, !.viewCount = 0]

\* lines 222-269: trending_score, score_breakdown and weights_used of one item
FinishUnified(t) ==
    LET w == UnifiedWeights(t)
    IN  [t EXCEPT !.c.trending_score =
                      WeightedScore(t, w, <<"volume", "engagement", "velocity",
                                            "recency", "cross_platform">>),
                  !.c.score_breakdown = [k \in Keys |-> Round2(Component(t, k))],
                  !.c.weights_used = w]

\* lines 1101-1124: the same for a single-platform call; the sum and the
\* breakdown leave the cross-platform component out
FinishPlatform(platform, t) ==
    LET w == PlatformWeights(platform, t)
    IN  [t EXCEPT !.c.trending_score =
                      WeightedScore(t, w, <<"volume", "engagement", "velocity", "recency">>),
                  !.c.score_breakdown =
                      [k \in Keys \ {"cross_platform"} |-> Round2(Component(t, k))],
                  !.c.weights_used = w]

\* a variant that puts x in front of the elements of equal score
RECURSIVE InsertDescBeforeEqual(_, _)
InsertDescBeforeEqual(sorted, x) ==
    IF sorted = <<>> THEN <<x>>
    ELSE IF RLe(Head(sorted).c.trending_score, x.c.trending_score)
         THEN <<x>> \o sorted
    ELSE <<Head(sorted)>> \o InsertDescBeforeEqual(Tail(sorted), x)

\* x goes behind every element whose score is not smaller: equal scores keep
\* their order of arrival
RECURSIVE InsertDesc(_, _)
InsertDesc(sorted, x) ==
    IF sorted = <<>> THEN <<x>>
    ELSE IF RLt(Head(sorted).c.trending_score, x.c.trending_score)
         THEN <<x>> \o sorted
    ELSE <<Head(sorted)>> \o InsertDesc(Tail(sorted), x)

RECURSIVE SortFrom(_, _, _)
SortFrom(ts, i, acc) ==
    IF i > Len(ts) THEN acc ELSE SortFrom(ts, i + 1, InsertDesc(acc, ts[i]))

\* a variant that sorts ascending and reverses the result: descending, but
\* equal scores come out in reverse order
SortByTrendingScoreReversed(ts) ==
    LET back == [i \in 1..Len(ts) |-> ts[Len(ts) + 1 - i]]
    IN  SortFrom(back, 1, <<>>)

\* list.sort(key=trending_score, reverse=True): descending and stable
SortByTrendingScore(ts) == SortFrom(ts, 1, <<>>)

----------------------------------------------------------------------------
(* The two scoring entry points                                            *)

\* position of the first item whose engagement scorer raises, 0 when none does
RECURSIVE FirstRaise(_, _, _)
FirstRaise(c, all, i) ==
    IF i > Len(all) THEN 0
    ELSE IF ~CalculateEngagementScore(c, all[i]).ok THEN i
    ELSE FirstRaise(c, all, i + 1)

\* the five raw component scores of the item at position i (lines 123-127);
\* a single-platform call writes 0.0 for cross-platform (line 1015)
RawScores(c, all, i, unified) ==
    [all[i] EXCEPT !.c.volume_score = CalculateVolumeScore(all[i]),
                   !.c.engagement_score = CalculateEngagementScore(c, all[i]).v,
                   !.c.velocity_score = CalculateVelocityScore(c, all[i]),
                   !.c.recency_score = CalculateRecencyScore(c, all[i]),
                   !.c.cross_platform_score =
                       IF unified THEN CalculateCrossPlatformScore(i, all) ELSE Zero]

\* the component loop (lines 122-127, 1010-1015).  When the engagement scorer
\* raises at position k (0: it does not) the items before k carry their raw
\* scores, item k its volume_score only, and the exception leaves the call.
LoopUpTo(c, all, unified, k) ==
    [ok |-> k = 0,
     trends |-> [i \in 1..Len(all) |->
                    IF k = 0 \/ i < k THEN RawScores(c, all, i, unified)
                    ELSE IF i = k
                         THEN [all[i] EXCEPT !.c.volume_score = CalculateVolumeScore(all[i])]
                    ELSE all[i]]]

ComponentLoop(c, all, unified) == LoopUpTo(c, all, unified, FirstRaise(c, all, 1))

\* the three percentage-of-total passes (lines 133-135, 1018-1020)
NormalizeAll(ts) ==
    NormalizeScores(NormalizeScores(NormalizeScores(ts, "volume_score"),
                                    "engagement_score"), "velocity_score")

\* calculate_universal_score_adaptive(all_trends) on calculator c
FinishAllUnified(normalized) ==
    [i \in 1..Len(normalized) |-> FinishUnified(normalized[i])]

\* lines 129-273 once the component loop has ended as loop on calculator c1
AfterLoopUnified(c1, loop) ==
    IF ~loop.ok THEN [calc |-> c1, trends |-> loop.trends, outcome |-> "raised"]
    ELSE [calc |-> c1,
          trends |-> SortByTrendingScore(FinishAllUnified(
                         NormalizeAll(NormalizeEngagementScores(loop.trends)))),
          outcome |-> "returned"]

\* lines 118-127 on the calculator c1 that holds the maxima of the batch
ScoreUnifiedWith(c1, all) == AfterLoopUnified(c1, ComponentLoop(c1, all, TRUE))

CalculateUniversalScoreAdaptive(c, all) ==
    IF all = <<>> THEN [calc |-> c, trends |-> <<>>, outcome |-> "returned"]
    ELSE ScoreUnifiedWith(CalculateTiktokMaxValues(c, all), all)

\* calculate_platform_specific_scores(trends, platform) on calculator c
FinishAllPlatform(platform, normalized) ==
    [i \in 1..Len(normalized) |-> FinishPlatform(platform, normalized[i])]

\* lines 1017-1127 once the component loop has ended as loop on calculator c1
AfterLoopPlatform(c1, loop, platform) ==
    IF ~loop.ok THEN [calc |-> c1, trends |-> loop.trends, outcome |-> "raised"]
    ELSE [calc |-> c1,
          trends |-> SortByTrendingScore(FinishAllPlatform(platform, NormalizeAll(loop.trends))),
          outcome |-> "returned"]

\* lines 1009-1015 on the calculator c1 the call scores with
ScorePlatformWith(c1, all, platform) ==
    AfterLoopPlatform(c1, ComponentLoop(c1, all, FALSE), platform)

\* a variant that starts from the maxima of a new calculator when the batch
\* is empty
CalculatePlatformSpecificScoresResetting(c, all, platform) ==
    IF all = <<>>
    THEN [calc |-> NewCalculator(c.current_time), trends |-> <<>>, outcome |-> "returned"]
    ELSE ScorePlatformWith(IF platform = "tiktok" THEN CalculateTiktokMaxValues(c, all) ELSE c,
                           all, platform)

\* calculate_platform_specific_scores: an empty list returns [] at once
CalculatePlatformSpecificScores(c, all, platform) ==
    IF all = <<>> THEN [calc |-> c, trends |-> <<>>, outcome |-> "returned"]
    ELSE ScorePlatformWith(IF platform = "tiktok" THEN CalculateTiktokMaxValues(c, all) ELSE c,
                           all, platform)

\* Step 4 of get_unified_trends (main.py 468-529): the item gets a metadata
\* dict and loses raw_data
PrepareMetadata(t) == [t EXCEPT !.metadata = TRUE, !.raw_data = FALSE]

\* a variant of the handler that scores the truncated list once more
TopTrendsRescored(r, limit) ==
    LET n == IF limit < Len(r.trends) THEN limit ELSE Len(r.trends)
        again == CalculateUniversalScoreAdaptive(r.calc, SubSeq(r.trends, 1, n))
        top == [i \in 1..Len(again.trends) |-> PrepareMetadata(again.trends[i])]
    IN  IF r.outcome = "raised"
        THEN [calc |-> r.calc, trends |-> r.trends, outcome |-> "raised", response |-> <<>>]
        ELSE [calc |-> r.calc,
              trends |-> top \o SubSeq(r.trends, n + 1, Len(r.trends)),
              outcome |-> "returned", response |-> top]

\* get_unified_trends after the scoring call returned or raised r (main.py
\* 461-529): top_trends = scored_trends[:limit], then metadata on the items
\* of top_trends, which are the same objects as the first items of
\* scored_trends.  An exception of the scorer becomes an HTTP 500 and no
\* trends are returned.  Storing the snapshot changes nothing here.
TopTrends(r, limit) ==
    LET n == IF limit < Len(r.trends) THEN limit ELSE Len(r.trends)
        scored == [i \in 1..Len(r.trends) |->
                      IF i <= n THEN PrepareMetadata(r.trends[i]) ELSE r.trends[i]]
    IN  IF r.outcome = "raised"
        THEN [calc |-> r.calc, trends |-> r.trends, outcome |-> "raised", response |-> <<>>]
        ELSE [calc |-> r.calc, trends |-> scored, outcome |-> "returned",
              response |-> SubSeq(scored, 1, n)]

----------------------------------------------------------------------------
(* TrendAggregatorService.filter_by_time_range                             *)

\* time_delta_map (lines 309-317), in hours
TimeDeltaMap ==
    [r \in {"1h", "24h", "7d", "30d", "3m", "6m", "1y"} |->
        CASE r = "1h" -> 1
          [] r = "24h" -> 24
          [] r = "7d" -> 7 * Day
          [] r = "30d" -> 30 * Day
          [] r = "3m" -> 90 * Day
          [] r = "6m" -> 180 * Day
          [] r = "1y" -> 365 * Day]

\* the timestamp the filter resolves for one item (lines 329-352)
FilterTimestamp(t) ==
    LET h == t.trendingHistogram
    IN  CASE t.platform = "google_trends" -> t.start_timestamp
          [] t.platform = "youtube" ->
                IF t.publishedAt.text # "" THEN FromIso(t.publishedAt) ELSE None
          [] t.platform = "tiktok" ->
                IF h # <<>> THEN FromIso(h[Len(h)].date) ELSE None
          [] OTHER -> None

\* line 355: no timestamp, or one not before the cutoff
Kept(t, cutoff) ==
    FilterTimestamp(t) = None \/ FilterTimestamp(t)[1] >= cutoff

\* a filter that returns the kept items newest position first
FilterByTimeRangeReversed(ts, time_range, at) ==
    LET keep(t) == Kept(t, at - TimeDeltaMap[time_range])
        kept == IF time_range \notin DOMAIN TimeDeltaMap THEN ts ELSE SelectSeq(ts, keep)
    IN  [j \in 1..Len(kept) |-> kept[Len(kept) + 1 - j]]

\* filter_by_time_range(trends, time_range) called at the instant at: an
\* unknown range returns the list as it is
FilterByTimeRange(ts, time_range, at) ==
    LET keep(t) == Kept(t, at - TimeDeltaMap[time_range])
    IN  IF time_range \notin DOMAIN TimeDeltaMap THEN ts ELSE SelectSeq(ts, keep)

----------------------------------------------------------------------------
(* TrendAggregatorService: the normalizers and aggregate_all_trends        *)

\* dict.get(key, default)
Get(d, key, default) == IF key \in DOMAIN d THEN d[key] ELSE default

\* a normalized dict, read as its readers read it: a key the dict lacks has
\* the default of the reader's .get
OverBlank(d) ==
    [k \in DOMAIN Blank \cup DOMAIN d |-> IF k \in DOMAIN d THEN d[k] ELSE Blank[k]]

\* the dict _normalize_google_trends appends for one raw trend (lines 157-174)
NormalizeGoogleTrend(trend) ==
    OverBlank([platform |-> "google_trends", entity_type |-> "search_query",
               id |-> Get(trend, "query", <<>>),
               query |-> Get(trend, "query", <<>>),
               title |-> Get(trend, "query", <<>>),
               name |-> Get(trend, "query", <<>>),
               url |-> Get(trend, "serpapi_news_link", ""),
               search_volume |-> Get(trend, "search_volume", 0),
               increase_percentage |-> Get(trend, "increase_percentage", 0),
               start_timestamp |-> Get(trend, "start_timestamp", None),
               active |-> Get(trend, "active", TRUE),
               categories |-> Get(trend, "categories", <<>>),
               trend_breakdown |-> Get(trend, "trend_breakdown", <<>>),
               started |-> Get(trend, "started", ""),
               started_ago |-> Get(trend, "started_ago", ""),
               raw_data |-> trend])

\* _normalize_google_trends
NormalizeGoogleTrends(ts) == [i \in 1..Len(ts) |-> NormalizeGoogleTrend(ts[i])]

\* a variant that takes a missing view count of a video to be 1
NormalizeYoutubeVideoCountingOne(video) ==
    OverBlank([platform |-> "youtube", entity_type |-> "video",
               id |-> Get(video, "id", ""),
               title |-> Get(video, "title", <<>>),
               name |-> Get(video, "title", <<>>),
               url |-> <<"https://www.youtube.com/watch?v=", Get(video, "id", "")>>,
               thumbnail |-> Get(video, "thumbnail_url_standard", ""),
               channelTitle |-> Get(video, "channelTitle", ""),
               publishedAt |-> Get(video, "publishedAt", EmptyStr),
               viewCount |-> Get(video, "viewCount", 1),
               likeCount |-> Get(video, "likeCount", 0),
               commentCount |-> Get(video, "commentCount", 0),
               duration_sec |-> Get(video, "duration_sec", 0),
               categoryId |-> Get(video, "categoryId", ""),
               raw_data |-> video])

\* the dict _normalize_youtube_trends appends for one raw video (lines 183-199)
NormalizeYoutubeVideo(video) ==
    OverBlank([platform |-> "youtube", entity_type |-> "video",
               id |-> Get(video, "id", ""),
               title |-> Get(video, "title", <<>>),
               name |-> Get(video, "title", <<>>),
               url |-> <<"https://www.youtube.com/watch?v=", Get(video, "id", "")>>,
               thumbnail |-> Get(video, "thumbnail_url_standard", ""),
               channelTitle |-> Get(video, "channelTitle", ""),
               publishedAt |-> Get(video, "publishedAt", EmptyStr),
               viewCount |-> Get(video, "viewCount", 0),
               likeCount |-> Get(video, "likeCount", 0),
               commentCount |-> Get(video, "commentCount", 0),
               duration_sec |-> Get(video, "duration_sec", 0),
               categoryId |-> Get(video, "categoryId", ""),
               raw_data |-> video])

\* _normalize_youtube_trends
NormalizeYoutubeTrends(videos) ==
    [i \in 1..Len(videos) |-> NormalizeYoutubeVideo(videos[i])]

\* lines 209-223
NormalizeHashtag(hashtag) ==
    OverBlank([platform |-> "tiktok", entity_type |-> "hashtag",
               id |-> Get(hashtag, "name", <<>>),
               name |-> Get(hashtag, "name", <<>>),
               title |-> HashTitle(Get(hashtag, "name", <<>>)),
               url |-> Get(hashtag, "url", ""),
               rank |-> Get(hashtag, "rank", 0),
               viewCount |-> Get(hashtag, "viewCount", 0),
               videoCount |-> Get(hashtag, "videoCount", 0),
               industryName |-> Get(hashtag, "industryName", ""),
               trendingHistogram |-> Get(hashtag, "trendingHistogram", <<>>),
               relatedCreators |-> Get(hashtag, "relatedCreators", <<>>),
               raw_data |-> hashtag])

\* lines 227-240
NormalizeCreator(creator) ==
    OverBlank([platform |-> "tiktok", entity_type |-> "creator",
               id |-> Get(creator, "url", ""),
               name |-> Get(creator, "name", <<>>),
               title |-> Get(creator, "name", <<>>),
               url |-> Get(creator, "url", ""),
               avatar |-> Get(creator, "avatar", ""),
               rank |-> Get(creator, "rank", 0),
               followerCount |-> Get(creator, "followerCount", 0),
               likedCount |-> Get(creator, "likedCount", 0),
               relatedVideos |-> Get(creator, "relatedVideos", <<>>),
               raw_data |-> creator])

\* lines 244-257
NormalizeSound(sound) ==
    OverBlank([platform |-> "tiktok", entity_type |-> "sound",
               id |-> Get(sound, "url", ""),
               name |-> Get(sound, "name", <<>>),
               title |-> Get(sound, "name", <<>>),
               url |-> Get(sound, "url", ""),
               coverUrl |-> Get(sound, "coverUrl", ""),
               rank |-> Get(sound, "rank", 0),
               author |-> Get(sound, "author", ""),
               durationSec |-> Get(sound, "durationSec", 0),
               trendingHistogram |-> Get(sound, "trendingHistogram", <<>>),
               raw_data |-> sound])

\* lines 261-272
NormalizeTiktokVideo(video) ==
    OverBlank([platform |-> "tiktok", entity_type |-> "video",
               id |-> Get(video, "url", ""),
               name |-> Get(video, "name", <<>>),
               title |-> Get(video, "name", <<>>),
               url |-> Get(video, "url", ""),
               coverUrl |-> Get(video, "coverUrl", ""),
               rank |-> Get(video, "rank", 0),
               durationSec |-> Get(video, "durationSec", 0),
               raw_data |-> video])

\* a variant that appends the videos before the sounds
NormalizeTiktokTrendsVideosFirst(tiktok_data) ==
    LET hashtags == Get(tiktok_data, "hashtags", <<>>)
        creators == Get(tiktok_data, "creators", <<>>)
        sounds == Get(tiktok_data, "sounds", <<>>)
        videos == Get(tiktok_data, "videos", <<>>)
    IN  [i \in 1..Len(hashtags) |-> NormalizeHashtag(hashtags[i])]
        \o [i \in 1..Len(creators) |-> NormalizeCreator(creators[i])]
        \o [i \in 1..Len(videos) |-> NormalizeTiktokVideo(videos[i])]
        \o [i \in 1..Len(sounds) |-> NormalizeSound(sounds[i])]

\* _normalize_tiktok_trends: the four loops append to one list
NormalizeTiktokTrends(tiktok_data) ==
    LET hashtags == Get(tiktok_data, "hashtags", <<>>)
        creators == Get(tiktok_data, "creators", <<>>)
        sounds == Get(tiktok_data, "sounds", <<>>)
        videos == Get(tiktok_data, "videos", <<>>)
    IN  [i \in 1..Len(hashtags) |-> NormalizeHashtag(hashtags[i])]
        \o [i \in 1..Len(creators) |-> NormalizeCreator(creators[i])]
        \o [i \in 1..Len(sounds) |-> NormalizeSound(sounds[i])]
        \o [i \in 1..Len(videos) |-> NormalizeTiktokVideo(videos[i])]

\* What a platform service does when asked: it raises, or it returns data.
\* Data that is not a list of dicts (None, say) makes the normalizer raise.
Raises == [raised |-> TRUE, wellformed |-> FALSE, data |-> <<>>]
Malformed == [raised |-> FALSE, wellformed |-> FALSE, data |-> <<>>]
Answer(data) == [raised |-> FALSE, wellformed |-> TRUE, data |-> data]

\* a variant of the try blocks in which a failure empties the list
TryFetchDroppingAll(all, answer, normalized) ==
    IF answer.raised \/ ~answer.wellformed
    THEN [status |-> "failed", all_trends |-> <<>>]
    ELSE [status |-> "ok", all_trends |-> all \o normalized]

\* one try block of aggregate_all_trends (lines 88-99, 102-114, 117-140): the
\* service is called, its answer normalized, all_trends extended; any
\* exception on the way is logged and swallowed, all_trends left as it was
TryFetch(all, answer, normalized) ==
    IF answer.raised \/ ~answer.wellformed
    THEN [status |-> "failed", all_trends |-> all]
    ELSE [status |-> "ok", all_trends |-> all \o normalized]

OnPlatform(all, p) ==
    LET on(t) == t.platform = p IN SelectSeq(all, on)

\* the dict aggregate_all_trends returns (lines 142-150); its 'trends' entry
\* is the list all_trends itself
AggregatedData(all) ==
    [total_count |-> Len(all),
     platform_counts |-> [p \in {"google_trends", "youtube", "tiktok"} |->
                             Len(OnPlatform(all, p))]]

----------------------------------------------------------------------------
(* Inputs: the item pools a run draws its batches from                     *)

WEras == <<"E", "r", "a", "s">>
Weras == <<"e", "r", "a", "s">>
Wtour == <<"t", "o", "u", "r">>
WTour == <<"T", "o", "u", "r">>
Wthe == <<"t", "h", "e">>
Wcat == <<"c", "a", "t">>
Wsong == <<"S", "o", "n", "g">>

Point(date, value) == [date |-> date, value |-> value]
Related(views, liked, created) == [viewCount |-> views, likedCount |-> liked, createTime |-> created]

\* Raw metrics are chosen so that the values of one component are small
\* multiples of a common unit across a pool, which keeps the exact shares
\* within TLC's 32-bit integers.
G1 == GoogleItem("g1", <<WEras, Wtour>>, 300, 200, Some(ConstructedAt), TRUE)
G2 == GoogleItem("g2", <<Wcat>>, 0, 0, None, FALSE)
Y1 == YouTubeItem("y1", <<Weras, WTour, Wthe>>, 30000, 9000, 1000, IsoStr(ConstructedAt - Day))
Y2 == YouTubeItem("y2", <<Weras, WTour, Wthe>>, 30000, 9000, 1000, IsoStr(ConstructedAt - Day))
H0 == HashtagItem("h0", <<Wcat>>, 0, 0, 0, <<>>)
H1 == HashtagItem("h1", <<Weras>>, 1, 50, 1,
                  <<Point(IsoStr(ConstructedAt - Day), 1), Point(IsoStr(ConstructedAt), 3)>>)
H2 == HashtagItem("h2", <<Wtour>>, 2, 100, 2, <<>>)
Cr0 == CreatorItem("c0", <<Wcat>>, 1, 0, 5, <<>>)
Cr1 == CreatorItem("c1", <<WEras, WTour>>, 2, 3000, 10000000,
                  <<Related(0, 0, IsoStr(ConstructedAt - 2 * Day)),
                    Related(0, 0, IsoStr(ConstructedAt - Day))>>)
S1 == SoundItem("s1", <<Wsong>>, 50, <<>>)
S2 == SoundItem("s2", <<Wsong, Wcat>>, 125, <<>>)
V1 == VideoItem("v1", <<Wcat>>, 3)
\* timestamps: the epoch, a day ahead of the clock, unparseable, two days old
G0 == GoogleItem("g0", <<Wsong>>, 100, 100, Some(0), TRUE)
G3 == GoogleItem("g3", <<Wcat>>, 100, 100, Some(ConstructedAt + Day), TRUE)
Y3 == YouTubeItem("y3", <<Wtour>>, 2400, 0, 0, BadStr)
H3 == HashtagItem("h3", <<Weras>>, 1, 100, 1,
                  <<Point(IsoStr(ConstructedAt - 3 * Day), 1),
                    Point(IsoStr(ConstructedAt - 2 * Day), 2)>>)
\* names sharing one term of four, one of three, one of two; a name of stop words
G4 == GoogleItem("g4", <<Weras, Wtour, Wsong>>, 300, 200, Some(ConstructedAt), TRUE)
Y4 == YouTubeItem("y4", <<WEras, Wcat>>, 30000, 9000, 1000, IsoStr(ConstructedAt - Day))
Cr4 == CreatorItem("c4", <<Weras>>, 2, 3000, 10000000,
                  <<Related(0, 0, IsoStr(ConstructedAt - 2 * Day)),
                    Related(0, 0, IsoStr(ConstructedAt - Day))>>)
G5 == GoogleItem("g5", <<Wthe>>, 300, 200, Some(ConstructedAt), TRUE)

\* three platforms with overlapping names
PoolMixed == <<G1, Y1, Cr1>>
\* two videos with equal metrics, and a search trend without a start time
PoolTies == <<Y1, Y2, G2>>
\* hashtags with different maxima
PoolHashtags == <<H1, H2, S1>>
\* ranks below and above 100
PoolRanks == <<S1, S2, V1>>
\* zero followers, zero views
PoolZeros == <<Cr0, H0, V1>>
\* resolvable, unresolvable and boundary timestamps
PoolTimes == <<G0, G3, Y3, H3>>
\* term sets below, at and above the overlap threshold
PoolTerms == <<G4, Y4, Cr4, G5>>
\* one video with nine tenths of the views, no likes or comments anywhere
Yd1 == YouTubeItem("d1", <<Weras>>, 900000, 0, 0, IsoStr(ConstructedAt - Day))
Yd2 == YouTubeItem("d2", <<Wtour>>, 50000, 0, 0, IsoStr(ConstructedAt - Day))
Yd3 == YouTubeItem("d3", <<Wcat>>, 50000, 0, 0, IsoStr(ConstructedAt - Day))
PoolDominant == <<Yd1, Yd2, Yd3>>
\* a creator with three videos of which two are dated, two days apart; one
\* with two videos of which one is dated; a sound whose histogram falls
Cr5 == CreatorItem("c5", <<Weras>>, 10, 100, 100,
                  <<Related(12800, 0, IsoStr(ConstructedAt - 3 * Day)),
                    Related(12800, 0, EmptyStr),
                    Related(12800, 0, IsoStr(ConstructedAt - Day))>>)
Cr6 == CreatorItem("c6", <<Wtour>>, 60, 95, 95,
                  <<Related(500, 5, BadStr),
                    Related(500, 5, IsoStr(ConstructedAt - Day))>>)
S5 == SoundItem("s5", <<Wsong>>, 50,
                <<Point(IsoStr(ConstructedAt - Day), 3), Point(IsoStr(ConstructedAt), 1)>>)
PoolCreators == <<Cr5, Cr6, S5>>
Pools ==
    {PoolMixed, PoolTies, PoolHashtags, PoolRanks, PoolZeros, PoolTimes, PoolTerms,
     PoolDominant, PoolCreators}

Platforms == {"google_trends", "youtube", "tiktok"}

\* raw records as the platform services hand them over: a search trend and
\* one that has a query and nothing else, a video and one that has an id only
RawG1 ==
    [query |-> <<WEras, Wtour>>, search_volume |-> 300, increase_percentage |-> 200,
     start_timestamp |-> Some(ConstructedAt), active |-> TRUE,
     categories |-> <<"music">>, trend_breakdown |-> <<"eras">>,
     serpapi_news_link |-> "news/eras", started |-> "today", started_ago |-> "2h"]
RawGBare == [query |-> <<Wcat>>]
RawY1 ==
    [id |-> "y1", title |-> <<Weras, WTour, Wthe>>,
     publishedAt |-> IsoStr(ConstructedAt - Day),
     viewCount |-> 30000, likeCount |-> 9000, commentCount |-> 1000,
     channelTitle |-> "channel", duration_sec |-> 60, categoryId |-> "10",
     thumbnail_url_standard |-> "thumb/y1"]
RawYBare == [id |-> "y0"]
\* TikTok records of the four types, and a creator that has a url only
RawH1 ==
    [name |-> <<Weras>>, rank |-> 50, viewCount |-> 4950, videoCount |-> 2,
     url |-> "tag/eras", industryName |-> "music",
     trendingHistogram |-> <<Point(IsoStr(ConstructedAt), 3)>>,
     relatedCreators |-> <<"c1">>]
RawH2 == [name |-> <<Wtour>>, rank |-> 50, viewCount |-> 4950, videoCount |-> 2]
RawCr1 ==
    [name |-> <<WEras, WTour>>, url |-> "creator/c1", avatar |-> "avatar/c1",
     rank |-> 2, followerCount |-> 3000, likedCount |-> 10000000,
     relatedVideos |-> <<Related(0, 0, IsoStr(ConstructedAt - 2 * Day)),
                         Related(0, 0, IsoStr(ConstructedAt - Day))>>]
RawCr2 == [name |-> <<Wcat>>, url |-> "creator/c2", rank |-> 50,
           followerCount |-> 2000, likedCount |-> 30]
RawCrBare == [url |-> "creator/c0"]
RawS1 ==
    [name |-> <<Wsong>>, url |-> "sound/s1", rank |-> 50, author |-> "a",
     durationSec |-> 30, coverUrl |-> "cover/s1"]
RawV1 == [name |-> <<Wcat>>, url |-> "video/v1", rank |-> 50, durationSec |-> 15]

\* the answers of the three services to one request
GoogleAnswers == {Raises, Malformed, Answer(<<RawG1, RawGBare>>)}
YoutubeAnswers ==
    {Raises, Answer(<<RawYBare>>), Answer(<<RawY1>>), Answer(<<RawYBare, RawY1>>)}
TiktokFourTypes ==
    Answer([hashtags |-> <<RawH1, RawH2>>, creators |-> <<RawCr2>>,
            sounds |-> <<RawS1>>, videos |-> <<RawV1>>])
TiktokAnswers ==
    {Raises,
     Answer([creators |-> <<RawCr1>>]),
     TiktokFourTypes,
     Answer([hashtags |-> <<>>, creators |-> <<RawCrBare, RawCr1>>,
             sounds |-> <<>>, videos |-> <<>>])}
\* (the engagement of a video is a million times that of a hashtag: the two
\* are not drawn together)
Sources ==
    {src \in [google_trends : GoogleAnswers, youtube : YoutubeAnswers,
              tiktok : TiktokAnswers] :
        src.tiktok = TiktokFourTypes => src.youtube = Raises}

\* the ranges a caller passes to the filter: the seven known ones and another
TimeRanges == DOMAIN TimeDeltaMap \cup {"2w"}

\* a batch: up to MaxBatch distinct items of the pool, in any order
Batches(p) ==
    LET picks == UNION {[1..k -> 1..Len(p)] : k \in 0..MaxBatch}
        distinct == {f \in picks : \A i, j \in DOMAIN f : i # j => f[i] # f[j]}
    IN  {[i \in DOMAIN f |-> p[f[i]]] : f \in distinct}

----------------------------------------------------------------------------
(* State machine                                                           *)

NoCall ==
    [op |-> "none", platform |-> "", at |-> 0, items |-> <<>>, limit |-> 0,
     time_range |-> "", lowered |-> FALSE]

MaxFields ==
    {"max_hashtag_views", "max_hashtag_videos", "max_hashtag_rank",
     "max_sound_rank", "max_video_rank"}

\* no request is in progress
NoAnswers == [p \in Platforms |-> Raises]
Idle ==
    [pc |-> "idle", limit |-> 0, asked |-> NoAnswers,
     fetch |-> [p \in Platforms |-> "pending"], all_trends |-> <<>>,
     aggregated |-> None, score_calls |-> 0]

\* the service is built once (TrendAggregatorService.__init__ constructs the
\* calculator); nothing has been scored yet
Init ==
    /\ now = ConstructedAt
    /\ calc = NewCalculator(ConstructedAt)
    /\ pool \in Pools
    /\ call = NoCall
    /\ trends = <<>>
    /\ outcome = "none"
    /\ response = <<>>
    /\ raw = NoAnswers
    /\ flow = Idle

\* time passes between requests
Tick ==
    /\ now < ConstructedAt + MaxTicks * Day
    /\ now' = now + Day
    /\ UNCHANGED <<calc, pool, call, trends, outcome, response, raw, flow>>

\* the effect of a call that produced result r.  call records the call: its
\* entry point, the clock when it was made, the list passed in, the limit of
\* a request, and whether the call left a maximum below the one an earlier
\* call had left.
Record(op, platform, items, limit, r) ==
    /\ call' = [op |-> op, platform |-> platform, at |-> now, items |-> items,
                limit |-> limit, time_range |-> "",
                lowered |-> call.op # "none" /\ \E f \in MaxFields : RLt(r.calc[f], calc[f])]
    /\ calc' = r.calc
    /\ trends' = r.trends
    /\ outcome' = r.outcome
    /\ UNCHANGED <<now, pool, raw, flow>>

\* a direct scoring call: no response is built
Apply(op, platform, items, r) ==
    /\ Record(op, platform, items, 0, r)
    /\ response' = <<>>

\* The scorers are pure functions of the calculator and the batch.  They are
\* tabulated once over the calculators and fresh batches a run can meet (the
\* maxima of a calculator are those of the last batches that held hashtags,
\* sounds and videos, so three calls reach every one of them).
CalcsOf(p) ==
    {CalculateTiktokMaxValues(CalculateTiktokMaxValues(CalculateTiktokMaxValues(
         NewCalculator(ConstructedAt), b1), b2), b3) :
        b1 \in Batches(p), b2 \in Batches(p), b3 \in Batches(p)}

ScoringInputs == UNION {CalcsOf(p) \X Batches(p) : p \in Pools}

OfPlatform(b, platform) == \A i \in 1..Len(b) : b[i].platform = platform

PlatformInputs ==
    {x \in ScoringInputs \X Platforms : OfPlatform(x[1][2], x[2])}

\* the comparison makes TLC build the whole table when it is first read
Tabulated(f) == IF f = <<>> THEN <<>> ELSE f

UnifiedTable ==
    Tabulated([x \in ScoringInputs |-> CalculateUniversalScoreAdaptive(x[1], x[2])])

PlatformTable ==
    Tabulated([x \in PlatformInputs |->
                  CalculatePlatformSpecificScores(x[1][1], x[1][2], x[2])])

\* calculate_universal_score_adaptive(b) on calculator c
Unified(c, b) == UnifiedTable[<<c, b>>]

\* calculate_platform_specific_scores(b, platform) on calculator c
Platform(c, b, platform) == PlatformTable[<<<<c, b>>, platform>>]

\* calculate_universal_score_adaptive on a fresh batch of normalized items
ScoreUnified ==
    \E b \in Batches(pool) :
        \E r \in {Unified(calc, b)} : Apply("unified", "", b, r)

\* calculate_platform_specific_scores on a batch of items of one platform
ScorePlatform ==
    \E p \in Platforms :
        \E b \in Batches(pool) :
            /\ OfPlatform(b, p)
            /\ \E r \in {Platform(calc, b, p)} :
                   Apply("platform", p, b, r)

\* calculate_universal_score_adaptive again, on the list a unified call returned
Rescore ==
    /\ outcome = "returned"
    /\ call.op \in {"unified", "rescore"}
    /\ trends # <<>>
    /\ \E r \in {CalculateUniversalScoreAdaptive(calc, trends)} :
           Apply("rescore", "", trends, r)

\* POST /unified-trends (get_unified_trends): the aggregated batch is scored
\* by calculate_trending_scores, the first `limit` items of the scored list
\* are returned
GetUnifiedTrends ==
    \E b \in Batches(pool) :
        \E scored \in {Unified(calc, b)} :
            \E limit \in 1..MaxLimit :
                \E r \in {TopTrends(scored, limit)} :
                    /\ Record("request", "", b, limit, r)
                    /\ response' = r.response

\* filter_by_time_range on a fresh batch of normalized items, at the clock's
\* time; the calculator is not involved
Filter ==
    \E b \in Batches(pool) : \E range \in TimeRanges :
        /\ call' = [op |-> "filter", platform |-> "", at |-> now, items |-> b,
                    limit |-> 0, time_range |-> range, lowered |-> FALSE]
        /\ trends' = FilterByTimeRange(b, range, now)
        /\ outcome' = "filtered"
        /\ response' = <<>>
        /\ UNCHANGED <<now, calc, pool, raw, flow>>

\* POST /unified-trends arrives (main.py 409-445): the request's locals are
\* fresh, the services will answer one of the enumerated answers
StartRequest ==
    /\ flow.pc \in {"idle", "done", "error"}
    /\ \E src \in Sources : \E limit \in 1..MaxLimit :
           /\ raw' = src
           /\ flow' = [Idle EXCEPT !.pc = "google", !.limit = limit, !.asked = src]
    /\ trends' = <<>>
    /\ outcome' = "none"
    /\ response' = <<>>
    /\ UNCHANGED <<now, calc, pool, call>>

\* a variant in which the list is returned once YouTube has answered
AfterFetchLeavingTiktok(p) ==
    CASE p = "google_trends" -> "youtube"
      [] p = "youtube" -> "return"
      [] p = "tiktok" -> "return"

\* the position after the try block of platform p
AfterFetch(p) ==
    CASE p = "google_trends" -> "youtube"
      [] p = "youtube" -> "tiktok"
      [] p = "tiktok" -> "return"

\* the effect of one try block with result r; the raw records are read
\* through .get and referenced by raw_data, never written
Fetched(p, r) ==
    /\ flow' = [flow EXCEPT !.pc = AfterFetch(p), !.fetch[p] = r.status,
                            !.all_trends = r.all_trends]
    /\ UNCHANGED <<now, calc, pool, call, trends, outcome, response, raw>>

\* aggregate_all_trends, lines 88-99
FetchGoogle ==
    /\ flow.pc = "google"
    /\ \E r \in {TryFetch(flow.all_trends, raw.google_trends,
                           NormalizeGoogleTrends(raw.google_trends.data))} :
           Fetched("google_trends", r)

\* lines 102-114
FetchYoutube ==
    /\ flow.pc = "youtube"
    /\ \E r \in {TryFetch(flow.all_trends, raw.youtube,
                           NormalizeYoutubeTrends(raw.youtube.data))} :
           Fetched("youtube", r)

\* lines 117-140
FetchTiktok ==
    /\ flow.pc = "tiktok"
    /\ \E r \in {TryFetch(flow.all_trends, raw.tiktok,
                           NormalizeTiktokTrends(raw.tiktok.data))} :
           Fetched("tiktok", r)

\* lines 142-150: aggregate_all_trends returns
ReturnAggregated ==
    /\ flow.pc = "return"
    /\ flow' = [flow EXCEPT !.pc = "score",
                            !.aggregated = Some(AggregatedData(flow.all_trends))]
    /\ UNCHANGED <<now, calc, pool, call, trends, outcome, response, raw>>

\* main.py 461: calculate_trending_scores(trends) scores and sorts the list
\* all_trends in place; an exception of the scorer ends the request with an
\* HTTP 500 (main.py 570-572)
Score ==
    /\ flow.pc = "score"
    /\ \E r \in {CalculateUniversalScoreAdaptive(calc, flow.all_trends)} :
           /\ call' = [op |-> "request", platform |-> "", at |-> now,
                       items |-> flow.all_trends, limit |-> flow.limit,
                       time_range |-> "",
                       lowered |-> \E f \in MaxFields : RLt(r.calc[f], calc[f])]
           /\ calc' = r.calc
           /\ trends' = r.trends
           /\ outcome' = r.outcome
           /\ flow' = [flow EXCEPT !.pc = IF r.outcome = "raised" THEN "error" ELSE "respond",
                                   !.all_trends = r.trends,
                                   !.score_calls = @ + 1]
    /\ UNCHANGED <<now, pool, response, raw>>

\* main.py 466-568: truncation, metadata, raw_data removed, the response
Respond ==
    /\ flow.pc = "respond"
    /\ \E r \in {TopTrends([calc |-> calc, trends |-> trends, outcome |-> outcome],
                            flow.limit)} :
           /\ trends' = r.trends
           /\ response' = r.response
           /\ flow' = [flow EXCEPT !.pc = "done", !.all_trends = r.trends]
    /\ UNCHANGED <<now, calc, pool, call, outcome, raw>>

Next == Tick \/ ScoreUnified \/ ScorePlatform \/ Rescore \/ GetUnifiedTrends

Spec == Init /\ [][Next]_vars

\* The filter has no caller in the service and reads nothing of the
\* calculator: its runs are the clock and the filter's calls on fresh batches.
NextFilter == Tick \/ Filter

SpecFilter == Init /\ [][NextFilter]_vars

\* The /unified-trends requests of a service whose collaborators answer as
\* enumerated: the handler runs from its first line to its response before
\* the next request starts (it awaits nothing before the response is built).
InitAggregate ==
    /\ now = ConstructedAt
    /\ calc = NewCalculator(ConstructedAt)
    /\ pool = <<>>
    /\ call = NoCall
    /\ trends = <<>>
    /\ outcome = "none"
    /\ response = <<>>
    /\ raw = NoAnswers
    /\ flow = Idle

NextAggregate ==
    \/ StartRequest
    \/ FetchGoogle
    \/ FetchYoutube
    \/ FetchTiktok
    \/ ReturnAggregated
    \/ Score
    \/ Respond

SpecAggregate == InitAggregate /\ [][NextAggregate]_vars

----------------------------------------------------------------------------
(* Properties                                                              *)

\* the last call was made on a non-empty list and returned it
Returned == outcome = "returned" /\ trends # <<>>

\* C1: after either scoring entry point returns on a non-empty batch, every
\* item's trending_score satisfies 0 <= trending_score <= 100.0001
C1_TrendingScoreInRange ==
    Returned =>
        \A i \in 1..Len(trends) :
            /\ RLe(Zero, trends[i].c.trending_score)
            /\ RLe(trends[i].c.trending_score, Rat(1000001, 10000))

ZeroFollowerCreator(t) == IsKind(t, "creator") /\ t.followerCount = 0

\* C3: a scoring call on a batch that holds a TikTok creator with
\* followerCount 0 does not raise; the call completes for the whole batch.
\* (Stated for batches in which no other item makes the scorer raise.)
C3_ZeroFollowersDoNotRaise ==
    ( /\ call.op # "none"
      /\ \E i \in 1..Len(call.items) : ZeroFollowerCreator(call.items[i])
      /\ \A i \in 1..Len(call.items) :
             ZeroFollowerCreator(call.items[i])
             \/ CalculateEngagementScore(calc, call.items[i]).ok )
    => outcome = "returned"

MaxIn(S) == CHOOSE m \in S : \A x \in S : x <= m

\* C4: in any sequence of calls on the shared calculator, the maxima the
\* scorers of a call divide by (hashtag views, videos and rank, sound rank,
\* video rank) are the maxima of that call's own batch
C4_MaximaOfOwnBatch ==
    LET hs == SelectSeq(call.items, IsHashtag)
        ss == SelectSeq(call.items, IsSound)
        vs == SelectSeq(call.items, IsVideo)
    IN  /\ hs # <<>> =>
              /\ calc.max_hashtag_views = R(MaxIn({hs[i].viewCount : i \in 1..Len(hs)}))
              /\ calc.max_hashtag_videos = R(MaxIn({hs[i].videoCount : i \in 1..Len(hs)}))
              /\ calc.max_hashtag_rank = R(MaxIn({hs[i].rank : i \in 1..Len(hs)}))
        /\ ss # <<>> => calc.max_sound_rank = R(MaxIn({ss[i].rank : i \in 1..Len(ss)}))
        /\ vs # <<>> => calc.max_video_rank = R(MaxIn({vs[i].rank : i \in 1..Len(vs)}))

\* a call that scored hashtags after an earlier call had left larger maxima
C4_LaterCallWithSmallerMaxima ==
    /\ Returned
    /\ call.lowered
    /\ \E i \in 1..Len(call.items) : IsHashtag(call.items[i])
    /\ calc.max_hashtag_views = R(50)

\* C5: the age the recency score uses is the time of the scoring call minus
\* the item's timestamp: the recency of every returned item is the one a
\* calculator whose current time is the time of the call computes
C5_AgeFromTimeOfCall ==
    Returned =>
        \A i \in 1..Len(trends) :
            trends[i].c.recency_score =
                CalculateRecencyScore([calc EXCEPT !.current_time = call.at], trends[i])

\* C6: a second calculate_universal_score_adaptive call on the list a first
\* call returned yields the same order of items and the same trending_score
\* for every item
C6_RescoreSameOrderAndScores ==
    (call.op = "rescore" /\ outcome = "returned") =>
        /\ Len(trends) = Len(call.items)
        /\ \A i \in 1..Len(trends) :
               /\ trends[i].id = call.items[i].id
               /\ trends[i].c.trending_score = call.items[i].c.trending_score

\* a second call returned a list of two or more items in which two
\* neighbours have equal scores
C6_RescoredListWithTie ==
    /\ call.op = "rescore"
    /\ Returned
    /\ \E i \in 1..(Len(trends) - 1) :
           trends[i].c.trending_score = trends[i + 1].c.trending_score

RowPlatforms == Platforms \cup {"other"}
RowItems ==
    {[Blank EXCEPT !.platform = p, !.entity_type = e] :
        p \in RowPlatforms, e \in {"", "hashtag", "creator", "sound", "video"}}

\* the rows of both weight tables, default rows included
AllWeightRows ==
    {UnifiedWeights(t) : t \in RowItems}
        \cup {PlatformWeights(p, t) : p \in RowPlatforms, t \in RowItems}

\* non-negative hundredths that sum to 100 (weights that sum to 1.0)
IsConvexRow(w) ==
    /\ DOMAIN w = Keys
    /\ \A k \in Keys : w[k] >= 0
    /\ w.volume + w.engagement + w.velocity + w.recency + w.cross_platform = 100

\* C7: every weight vector the scorer can attach as weights_used, in both
\* tables (platform rows, TikTok entity-type rows, default rows), has
\* non-negative weights that sum to 1.0
C7_WeightsSumToOne ==
    /\ \A w \in AllWeightRows : IsConvexRow(w)
    /\ \A i \in 1..Len(trends) :
           trends[i].c.weights_used # NoMap => IsConvexRow(trends[i].c.weights_used)

\* a returned list whose items carry two different weight rows
C7_TwoRowsAttached ==
    /\ Returned
    /\ \E i, j \in 1..Len(trends) :
           /\ trends[i].c.weights_used # NoMap
           /\ trends[j].c.weights_used # NoMap
           /\ trends[i].c.weights_used # trends[j].c.weights_used

\* the reference table of the specification, in hundredths
ReferenceWeights(t) ==
    CASE t.platform = "google_trends" -> Weights(35, 15, 30, 15, 5)
      [] t.platform = "youtube" -> Weights(30, 25, 20, 15, 10)
      [] IsKind(t, "hashtag") -> Weights(25, 40, 20, 10, 5)
      [] IsKind(t, "creator") -> Weights(25, 25, 35, 10, 5)
      [] IsKind(t, "sound") -> Weights(25, 30, 25, 10, 10)
      [] IsKind(t, "video") -> Weights(25, 30, 25, 10, 10)
      [] OTHER -> Weights(30, 25, 20, 15, 10)

\* C8: in unified scoring the weight vector selected for an item is the row
\* of the reference table for its platform and entity type
C8_UnifiedRowsAreReferenceRows ==
    (Returned /\ call.op \in {"unified", "rescore"}) =>
        \A i \in 1..Len(trends) :
            trends[i].c.weights_used = ReferenceWeights(trends[i])

OwnKeys == Keys \ {"cross_platform"}

PositionIn(items, id) == CHOOSE k \in 1..Len(items) : items[k].id = id

\* C10: the returned list is ordered by trending_score descending, and items
\* with equal trending_score keep the relative order they had in the input
C10_SortedDescendingStable ==
    Returned =>
        /\ \A i \in 1..(Len(trends) - 1) :
               RLe(trends[i + 1].c.trending_score, trends[i].c.trending_score)
        /\ \A i, j \in 1..Len(trends) :
               (i < j /\ trends[i].c.trending_score = trends[j].c.trending_score) =>
                   PositionIn(call.items, trends[i].id) < PositionIn(call.items, trends[j].id)

\* a returned list the sort had to reorder, holding two items of equal score
C10_ReorderedListWithTie ==
    /\ Returned
    /\ \E i \in 1..Len(trends) : trends[i].id # call.items[i].id
    /\ \E i \in 1..(Len(trends) - 1) :
           trends[i].c.trending_score = trends[i + 1].c.trending_score

\* C11: in the /unified-trends flow the limit is applied after the whole
\* aggregated batch has been scored and sorted: the scored list holds every
\* aggregated item with shares normalized over all of them, and the response
\* is its first `limit` items with the scores they have in that list
C11_LimitAfterScoring ==
    (call.op = "request" /\ outcome = "returned") =>
        LET n == IF call.limit < Len(trends) THEN call.limit ELSE Len(trends)
        IN  /\ Len(trends) = Len(call.items)
            /\ {trends[i].id : i \in 1..Len(trends)}
                   = {call.items[i].id : i \in 1..Len(call.items)}
            /\ \A i \in 1..(Len(trends) - 1) :
                   RLe(trends[i + 1].c.trending_score, trends[i].c.trending_score)
            /\ trends # <<>> =>
                   RSum([i \in 1..Len(trends) |-> trends[i].c.volume_score]) = R(100)
            /\ response = SubSeq(trends, 1, n)

\* a request whose limit cut the scored list
C11_RequestTruncated ==
    /\ call.op = "request"
    /\ outcome = "returned"
    /\ response # <<>>
    /\ Len(response) < Len(trends)

\* the timestamp the recency scorer resolved for the item and went on to
\* use (it passed `if not timestamp`)
UsedTimestamp(t) == ~Falsy(RecencyTimestamp(t))

\* hours between the calculator's current time and the item's timestamp
AgeHours(t) == calc.current_time - RecencyTimestamp(t)[1]

C13_DefaultOnlyWithoutTimestamp ==
    Returned =>
        \A i \in 1..Len(trends) :
            LET ts == RecencyTimestamp(trends[i])
                age == calc.current_time - ts[1]
            IN  IF ts = None THEN trends[i].c.recency_score = R(70)
                ELSE trends[i].c.recency_score =
                         (IF age <= 0 THEN R(100) ELSE Rat(100, 2 ^ (age \div 24)))

\* the platforms, other than its own, on which some item of the scored batch
\* shares at least 30 % of the union of the two names' significant terms
MatchedPlatforms(i) ==
    {trends[j].platform : j \in
        {k \in 1..Len(trends) :
            /\ trends[k].platform # trends[i].platform
            /\ LET a == ExtractKeyTerms(trends[i])
                   b == ExtractKeyTerms(trends[k])
               IN  /\ a # {}
                   /\ b # {}
                   /\ 100 * Cardinality(a \cap b) >= 30 * Cardinality(a \cup b)}}

\* C14: cross_platform_score is 0 when no item of another platform has a term
\* set with Jaccard similarity of at least 0.30 to the item's (or the item has
\* no significant terms), 50 when such items exist on exactly one other
\* platform, 100 when on two or more; items of its own platform never count
C14_CrossPlatformScoreByPlatforms ==
    Returned =>
        \A i \in 1..Len(trends) :
            trends[i].c.cross_platform_score =
                CASE Cardinality(MatchedPlatforms(i)) = 0 -> Zero
                  [] Cardinality(MatchedPlatforms(i)) = 1 -> R(50)
                  [] OTHER -> R(100)

\* a batch with an item matched on two other platforms and an item matched on
\* one, its other term-sharing neighbour falling below the threshold
C14_ZeroFiftyHundred ==
    /\ Returned
    /\ call.op = "unified"
    /\ \E i, j \in 1..Len(trends) :
           /\ Cardinality(MatchedPlatforms(i)) = 2
           /\ Cardinality(MatchedPlatforms(j)) = 1
           /\ trends[i].id = "c4"
           /\ trends[j].id = "g4"

\* the Jaccard similarity of the two items' term sets is at least 0.30
Similar(a, b) ==
    LET ta == ExtractKeyTerms(a)
        tb == ExtractKeyTerms(b)
    IN  ta \cup tb # {} /\ 10 * Cardinality(ta \cap tb) >= 3 * Cardinality(ta \cup tb)

\* C15: cross-platform matching is mutual: any two items of a scored batch
\* that are on different platforms and whose term sets have Jaccard similarity
\* of at least 0.30 both get a cross_platform_score of at least 50, whatever
\* their order in the batch and whatever other items it holds
C15_MatchingIsMutual ==
    Returned =>
        \A i, j \in 1..Len(trends) :
            trends[i].platform # trends[j].platform /\ Similar(trends[i], trends[j]) =>
                /\ RLe(R(50), trends[i].c.cross_platform_score)
                /\ RLe(R(50), trends[j].c.cross_platform_score)

\* a unified call whose input batch holds a similar pair of two platforms, the
\* later of the pair behind an unrelated item
C15_SimilarPairInBatch ==
    /\ Returned
    /\ call.op = "unified"
    /\ Len(call.items) = 3
    /\ call.items[1].platform # call.items[3].platform
    /\ Similar(call.items[1], call.items[3])
    /\ ~Similar(call.items[1], call.items[2])
    /\ ~Similar(call.items[2], call.items[3])

\* the weighted sum of the five component scores of t with its weights_used
\* (percentages), rounded to 2 decimals
FiveTermSum(t) ==
    Round2(RDiv(RAdd(RAdd(RAdd(RAdd(
                    RMul(R(t.c.weights_used.volume), t.c.volume_score),
                    RMul(R(t.c.weights_used.engagement), t.c.engagement_score)),
                    RMul(R(t.c.weights_used.velocity), t.c.velocity_score)),
                    RMul(R(t.c.weights_used.recency), t.c.recency_score)),
                    RMul(R(t.c.weights_used.cross_platform), t.c.cross_platform_score)),
                R(100)))

\* C16: every item returned by a scoring call, unified or single-platform,
\* carries a score_breakdown with all five component values and a
\* weights_used with all five weights, and its trending_score is the
\* weighted sum of its five component scores rounded to 2 decimals
C16_BreakdownWeightsAndSum ==
    Returned =>
        \A i \in 1..Len(trends) :
            /\ DOMAIN trends[i].c.score_breakdown = Keys
            /\ DOMAIN trends[i].c.weights_used = Keys
            /\ trends[i].c.trending_score = FiveTermSum(trends[i])

\* an item without its computed fields
RawFields(t) == [t EXCEPT !.c = Unscored]

\* C17: a scoring call returns a list holding exactly the items it was given
\* (a permutation: none added, dropped or duplicated) and changes on each item
\* only the computed fields; platform, entity_type and every raw metric field
\* are as they were
C17_PermutationWithRawFieldsKept ==
    outcome = "returned" /\ call.op \in {"unified", "platform", "rescore"} =>
        /\ Len(trends) = Len(call.items)
        /\ \E f \in Permutations(1..Len(trends)) :
               \A i \in 1..Len(trends) : RawFields(trends[i]) = RawFields(call.items[f[i]])

\* a returned batch in another order than it came in, one of its search
\* trends rescaled by the engagement normalization
C17_ReorderedAndRescaled ==
    /\ outcome = "returned"
    /\ call.op = "unified"
    /\ Len(trends) >= 2
    /\ trends[1].id # call.items[1].id
    /\ \E i \in 1..Len(trends) :
           /\ trends[i].platform = "google_trends"
           /\ trends[i].c.score_breakdown.engagement # R(trends[i].increase_percentage)

\* the raw component scores the call computed for the item at position i of
\* its input batch, with the maxima the call used
RawOf(i) == RawScores(calc, call.items, i, call.op # "platform").c

\* C18: every raw component score (volume, engagement, velocity, recency,
\* cross-platform) is non-negative for every item with non-negative metrics,
\* TikTok items of a rank above 100 or above the maximum rank included
C18_RawScoresNonNegative ==
    Returned =>
        \A i \in 1..Len(call.items) :
            /\ RLe(Zero, RawOf(i).volume_score)
            /\ RLe(Zero, RawOf(i).engagement_score)
            /\ RLe(Zero, RawOf(i).velocity_score)
            /\ RLe(Zero, RawOf(i).recency_score)
            /\ RLe(Zero, RawOf(i).cross_platform_score)

\* a call of the filter with one of the seven known ranges has returned
Filtered == outcome = "filtered" /\ call.time_range \in DOMAIN TimeDeltaMap

\* the item at position i of the filter's input is in the list it returned
IsKept(i) == \E j \in 1..Len(trends) : trends[j] = call.items[i]

\* C19: with a valid window the filter keeps an item if and only if its
\* timestamp is missing or lies within [now - window, now]; an item dated
\* later than now is not kept, nor is one older than now - window
C19_KeptIffMissingOrInWindow ==
    Filtered =>
        \A i \in 1..Len(call.items) :
            LET ts == FilterTimestamp(call.items[i])
            IN  IsKept(i) <=>
                    \/ ts = None
                    \/ /\ call.at - TimeDeltaMap[call.time_range] <= ts[1]
                       /\ ts[1] <= call.at

\* C20: for every item the filter resolves the timestamp the recency scorer
\* resolves, and both treat the same items as having no timestamp
C20_FilterResolvesRecencyTimestamp ==
    outcome = "filtered" =>
        \A i \in 1..Len(call.items) :
            LET t == call.items[i]
            IN  /\ FilterTimestamp(t) = None <=> Falsy(RecencyTimestamp(t))
                /\ FilterTimestamp(t) # None => FilterTimestamp(t) = RecencyTimestamp(t)


\* a is b with some positions left out, the others in b's order
RECURSIVE IsSubSeq(_, _)
IsSubSeq(a, b) ==
    IF a = <<>> THEN TRUE
    ELSE IF b = <<>> THEN FALSE
    ELSE IF Head(a) = Head(b) THEN IsSubSeq(Tail(a), Tail(b))
    ELSE IsSubSeq(a, Tail(b))

\* C21: the filter changes no item and no field of an item: the list it
\* returns is a sub-sequence of its input in the input's order, and with a
\* range outside the seven known ones it returns every input item
C21_FilterReturnsSubSequence ==
    outcome = "filtered" =>
        /\ IsSubSeq(trends, call.items)
        /\ call.time_range \notin DOMAIN TimeDeltaMap => trends = call.items

\* a filter call dropped an item and kept two others
C21_SomeDroppedSomeKept ==
    /\ Filtered
    /\ Len(trends) >= 2
    /\ Len(trends) < Len(call.items)


\* the records of one sub-list of the TikTok answer, each with the type of
\* the sub-list it stands in
OfType(tiktok_data, key, type) ==
    LET records == Get(tiktok_data, key, <<>>)
    IN  [i \in 1..Len(records) |->
            [platform |-> "tiktok", entity_type |-> type, record |-> records[i]]]

\* the raw records of the platforms whose fetch succeeded, in the order the
\* aggregator asks the platforms, each with its platform and its type
RecordsFetched ==
    (IF flow.fetch.google_trends = "ok"
     THEN [i \in 1..Len(raw.google_trends.data) |->
              [platform |-> "google_trends", entity_type |-> "search_query",
               record |-> raw.google_trends.data[i]]]
     ELSE <<>>)
    \o (IF flow.fetch.youtube = "ok"
        THEN [i \in 1..Len(raw.youtube.data) |->
                 [platform |-> "youtube", entity_type |-> "video",
                  record |-> raw.youtube.data[i]]]
        ELSE <<>>)
    \o (IF flow.fetch.tiktok = "ok"
        THEN OfType(raw.tiktok.data, "hashtags", "hashtag")
             \o OfType(raw.tiktok.data, "creators", "creator")
             \o OfType(raw.tiktok.data, "sounds", "sound")
             \o OfType(raw.tiktok.data, "videos", "video")
        ELSE <<>>)

\* the three fetches are over and the list has not been scored yet
Aggregated == flow.pc \in {"return", "score"}

\* C22: the normalizers produce exactly one item per raw record, each with
\* one platform and one entity_type; a TikTok item has the type of the
\* sub-list its record came from, and the TikTok items are the hashtags, the
\* creators, the sounds and the videos in this order, each sub-list in its
\* input order
C22_OneItemPerRecordInOrder ==
    Aggregated =>
        /\ Len(flow.all_trends) = Len(RecordsFetched)
        /\ \A i \in 1..Len(RecordsFetched) :
               /\ flow.all_trends[i].raw_data = RecordsFetched[i].record
               /\ flow.all_trends[i].platform = RecordsFetched[i].platform
               /\ flow.all_trends[i].entity_type = RecordsFetched[i].entity_type

\* a TikTok answer with records of all four types, two of them hashtags, has
\* been normalized
C22_FourTypesNormalized ==
    /\ Aggregated
    /\ flow.fetch.tiktok = "ok"
    /\ raw.tiktok = TiktokFourTypes
    /\ Len(flow.all_trends) >= 5


\* the fields a normalizer copies from the raw record with a default: the
\* item's field, the raw record's key, and the kind of the value ("words" is
\* a string kept as its words, "date" a string that holds a date, "instant"
\* a number that is a point in time)
CopiedFields(platform, entity_type) ==
    CASE platform = "google_trends" ->
            {<<"id", "query", "words">>, <<"query", "query", "words">>,
             <<"title", "query", "words">>, <<"name", "query", "words">>,
             <<"url", "serpapi_news_link", "string">>,
             <<"search_volume", "search_volume", "number">>,
             <<"increase_percentage", "increase_percentage", "number">>,
             <<"start_timestamp", "start_timestamp", "instant">>,
             <<"categories", "categories", "list">>,
             <<"trend_breakdown", "trend_breakdown", "list">>,
             <<"started", "started", "string">>,
             <<"started_ago", "started_ago", "string">>}
      [] platform = "youtube" ->
            {<<"id", "id", "string">>, <<"title", "title", "words">>,
             <<"name", "title", "words">>,
             <<"thumbnail", "thumbnail_url_standard", "string">>,
             <<"channelTitle", "channelTitle", "string">>,
             <<"publishedAt", "publishedAt", "date">>,
             <<"viewCount", "viewCount", "number">>,
             <<"likeCount", "likeCount", "number">>,
             <<"commentCount", "commentCount", "number">>,
             <<"duration_sec", "duration_sec", "number">>,
             <<"categoryId", "categoryId", "string">>}
      [] entity_type = "hashtag" ->
            {<<"id", "name", "words">>, <<"name", "name", "words">>,
             <<"url", "url", "string">>, <<"rank", "rank", "number">>,
             <<"viewCount", "viewCount", "number">>,
             <<"videoCount", "videoCount", "number">>,
             <<"industryName", "industryName", "string">>,
             <<"trendingHistogram", "trendingHistogram", "list">>,
             <<"relatedCreators", "relatedCreators", "list">>}
      [] entity_type = "creator" ->
            {<<"id", "url", "string">>, <<"name", "name", "words">>,
             <<"title", "name", "words">>, <<"url", "url", "string">>,
             <<"avatar", "avatar", "string">>, <<"rank", "rank", "number">>,
             <<"followerCount", "followerCount", "number">>,
             <<"likedCount", "likedCount", "number">>,
             <<"relatedVideos", "relatedVideos", "list">>}
      [] entity_type = "sound" ->
            {<<"id", "url", "string">>, <<"name", "name", "words">>,
             <<"title", "name", "words">>, <<"url", "url", "string">>,
             <<"coverUrl", "coverUrl", "string">>, <<"rank", "rank", "number">>,
             <<"author", "author", "string">>,
             <<"durationSec", "durationSec", "number">>,
             <<"trendingHistogram", "trendingHistogram", "list">>}
      [] OTHER ->
            {<<"id", "url", "string">>, <<"name", "name", "words">>,
             <<"title", "name", "words">>, <<"url", "url", "string">>,
             <<"coverUrl", "coverUrl", "string">>, <<"rank", "rank", "number">>,
             <<"durationSec", "durationSec", "number">>}

\* the field of item t named by row f has the default of its kind: 0, the
\* empty string, the empty list; instant is what a missing point in time is
\* to become
HasDefault(t, f, instant) ==
    CASE f[3] = "number" -> t[f[1]] = 0
      [] f[3] = "string" -> t[f[1]] = ""
      [] f[3] = "words" -> t[f[1]] = <<>>
      [] f[3] = "date" -> t[f[1]] = EmptyStr
      [] f[3] = "list" -> t[f[1]] = <<>>
      [] f[3] = "instant" -> t[f[1]] = instant

\* every field of every item whose key the raw record lacks has its default
MissingFieldsDefault(instant) ==
    \A i \in 1..Len(flow.all_trends) :
        LET t == flow.all_trends[i]
        IN  \A f \in CopiedFields(t.platform, t.entity_type) :
                f[2] \notin DOMAIN t.raw_data => HasDefault(t, f, instant)

\* a fetch has failed only if the service raised or answered something that
\* is not a list of records
NormalizingNeverRaised ==
    \A p \in Platforms :
        flow.fetch[p] = "failed" => raw[p].raised \/ ~raw[p].wellformed

\* the lists an item shares with its raw record are as the record has them
SharedListsKept ==
    \A i \in 1..Len(flow.all_trends) :
        LET t == flow.all_trends[i]
        IN  /\ t.trendingHistogram = Get(t.raw_data, "trendingHistogram", <<>>)
            /\ t.relatedVideos = Get(t.raw_data, "relatedVideos", <<>>)

\* the raw records are as the services handed them over, at every step of
\* the request; while the items still refer to them (until the response
\* drops raw_data) each item's record is one of them
RawInputUntouched ==
    /\ raw = flow.asked
    /\ flow.pc \in {"return", "score", "respond", "error"} =>
           /\ SharedListsKept
           /\ \A i \in 1..Len(flow.all_trends) :
                  \E j \in 1..Len(RecordsFetched) :
                      flow.all_trends[i].raw_data = RecordsFetched[j].record

\* C23 as stated: normalizing never raises and never changes the raw record,
\* before or after scoring and response building; a missing numeric field
\* becomes 0 (start_timestamp included), a missing string the empty string,
\* a missing list the empty list
C23_EveryMissingNumberBecomesZero ==
    /\ NormalizingNeverRaised
    /\ RawInputUntouched
    /\ Aggregated => MissingFieldsDefault(Some(0))

\* C23, amended: as above, except that a missing start_timestamp becomes
\* None, the value the scorer and the filter read as "no timestamp"
C23_MissingFieldsDefaultTimestampNone ==
    /\ NormalizingNeverRaised
    /\ RawInputUntouched
    /\ Aggregated => MissingFieldsDefault(None)

\* a request whose answers held records with nothing but a query and nothing
\* but an id has been normalized, scored and answered
C23_BareRecordsServed ==
    /\ flow.pc = "done"
    /\ flow.fetch.google_trends = "ok"
    /\ flow.fetch.youtube = "ok"
    /\ raw.google_trends.data[2] = RawGBare
    /\ raw.youtube.data[1] = RawYBare
    /\ response # <<>>


\* C24: scoring an empty batch returns an empty list and changes no state of
\* the calculator (the cached maxima and the current time stay as they were),
\* by calculate_universal_score_adaptive and by
\* calculate_platform_specific_scores alike
C24_EmptyBatchChangesNothing ==
    [][(call'.op \in {"unified", "platform", "rescore", "request"} /\ call'.items = <<>>)
          => (calc' = calc /\ trends' = <<>> /\ outcome' = "returned")]_vars

\* a calculator that holds the maxima of an earlier TikTok batch was handed
\* an empty TikTok batch
C24_EmptyAfterTiktokBatch ==
    /\ call.op = "platform"
    /\ call.platform = "tiktok"
    /\ call.items = <<>>
    /\ outcome = "returned"
    /\ calc # NewCalculator(ConstructedAt)


\* C25: in the unified-trends flow the scorer is invoked exactly once per
\* request, and only after each of the three fetches has completed or
\* failed; no item is scored while a fetch is outstanding.  (The scorer has
\* run at most once for the request in progress and not before every fetch
\* was over; no item carries a score while a fetch is outstanding; a request
\* that has ended, answered or in error, has had its one scoring call.)
C25_ScoredOnceAfterAllFetches ==
    /\ flow.score_calls <= 1
    /\ flow.score_calls = 1 => \A p \in Platforms : flow.fetch[p] \in {"ok", "failed"}
    /\ (\E p \in Platforms : flow.fetch[p] = "pending") =>
           \A i \in 1..Len(flow.all_trends) : flow.all_trends[i].c = Unscored
    /\ flow.pc \in {"done", "error"} => flow.score_calls = 1

\* a request with one failed and one completed fetch has been scored and
\* answered
C25_AnsweredAfterMixedFetches ==
    /\ flow.pc = "done"
    /\ flow.score_calls = 1
    /\ \E p \in Platforms : flow.fetch[p] = "failed"
    /\ \E p \in Platforms : flow.fetch[p] = "ok"
    /\ response # <<>>


\* a scoring call has run on a list
Scoring == call.op \in {"unified", "platform", "rescore", "request"}

\* C26: whenever the engagement of a TikTok hashtag, sound or video is
\* computed, the batch maximum it is divided by (the largest hashtag
\* viewCount, videoCount and rank, the largest sound rank, the largest video
\* rank) is strictly positive, also for a batch whose items of that type all
\* have 0 in that field; such a batch is scored without a division error
C26_BatchMaximaPositive ==
    Scoring =>
        \A i \in 1..Len(call.items) :
            LET t == call.items[i]
            IN  /\ IsHashtag(t) =>
                       /\ RLt(Zero, calc.max_hashtag_views)
                       /\ RLt(Zero, calc.max_hashtag_videos)
                       /\ RLt(Zero, calc.max_hashtag_rank)
                /\ IsSound(t) => RLt(Zero, calc.max_sound_rank)
                /\ IsVideo(t) => RLt(Zero, calc.max_video_rank)
                /\ (IsHashtag(t) \/ IsSound(t) \/ IsVideo(t)) /\ outcome = "raised" =>
                       \E j \in 1..Len(call.items) :
                           /\ IsKind(call.items[j], "creator")
                           /\ call.items[j].followerCount = 0


\* the share of x in the sum of the values vs, in percent; 100 / len when
\* the sum is 0
ShareOf(x, vs) ==
    IF RSum(vs) = Zero THEN Rat(100, Len(vs)) ELSE RMul(RDiv(x, RSum(vs)), R(100))

\* the raw volume, velocity and engagement of the items of the returned list
RawVolumes == [j \in 1..Len(trends) |-> CalculateVolumeScore(trends[j])]
RawVelocities == [j \in 1..Len(trends) |-> CalculateVelocityScore(calc, trends[j])]
RawEngagements == [j \in 1..Len(trends) |-> CalculateEngagementScore(calc, trends[j]).v]

SearchItems == {j \in 1..Len(trends) : trends[j].platform = "google_trends"}
PositiveOthers ==
    {j \in 1..Len(trends) :
        trends[j].platform # "google_trends" /\ RLt(Zero, RawEngagements[j])}

\* the engagement of the item at position j when the call returned
Engagement(j) == trends[j].c.engagement_score

\* C28: before the percentage pass the raw engagement of the search items
\* is min-max rescaled into the range [min, max] of the positive raw
\* engagement of the other platforms' items: every search item's engagement
\* lies in that range, the lowest at its minimum, the highest at its
\* maximum, and no two search items change their order; the other items
\* keep their proportions.  Without search items, without other items or
\* without positive engagement among the others nothing is rescaled.  (The
\* percentage pass divides every value by the same positive total, so range
\* and order are read off the returned percentages.)
C28_SearchEngagementRescaledIntoRange ==
    Returned /\ Scoring =>
        IF SearchItems # {} /\ PositiveOthers # {}
        THEN /\ \A g \in SearchItems :
                    /\ \E o \in PositiveOthers : RLe(Engagement(o), Engagement(g))
                    /\ \E o \in PositiveOthers : RLe(Engagement(g), Engagement(o))
                    /\ (\A h \in SearchItems : RLe(RawEngagements[g], RawEngagements[h])) =>
                           \A o \in PositiveOthers : RLe(Engagement(g), Engagement(o))
                    /\ (\E h \in SearchItems : RLt(RawEngagements[h], RawEngagements[g]))
                       /\ (\A h \in SearchItems : RLe(RawEngagements[h], RawEngagements[g])) =>
                           \A o \in PositiveOthers : RLe(Engagement(o), Engagement(g))
                    /\ \A h \in SearchItems :
                           RLt(RawEngagements[g], RawEngagements[h]) =>
                               RLe(Engagement(g), Engagement(h))
             /\ \A o, q \in (1..Len(trends)) \ SearchItems :
                    RMul(Engagement(o), RawEngagements[q]) = RMul(Engagement(q), RawEngagements[o])
        ELSE \A i \in 1..Len(trends) :
                 Engagement(i) = ShareOf(RawEngagements[i], RawEngagements)

\* two search items of different engagement were scored with items of other
\* platforms whose positive engagement spans a range: the one takes its
\* lower end, the other its upper end
C28_TwoSearchItemsAcrossARange ==
    /\ Returned
    /\ Scoring
    /\ \E g, h \in SearchItems : RLt(Engagement(g), Engagement(h))
    /\ \E o, q \in PositiveOthers : RLt(Engagement(o), Engagement(q))


\* the instants of the related videos that have a parseable timestamp
TimedVideos(t) ==
    LET timed(v) == v.createTime.text = "iso"
        vs == SelectSeq(t.relatedVideos, timed)
    IN  [i \in 1..Len(vs) |-> vs[i].createTime.t]

\* the days between the earliest and the latest of the instants, at least 1
SpanDays(times) ==
    LET hours == CHOOSE d \in {times[i] - times[j] : i, j \in 1..Len(times)} :
                     \A i, j \in 1..Len(times) : times[i] - times[j] <= d
    IN  IF hours > 24 THEN Rat(hours, 24) ELSE R(1)

\* the velocity the claim gives a TikTok item
ClaimedTiktokVelocity(t) ==
    LET h == t.trendingHistogram
        vids == t.relatedVideos
        span == SpanDays(TimedVideos(t))
        total_views == RSum([i \in 1..Len(vids) |-> R(vids[i].viewCount)])
        total_likes == RSum([i \in 1..Len(vids) |-> R(vids[i].likedCount)])
    IN  IF t.entity_type = "creator" /\ Len(TimedVideos(t)) >= 2
        THEN RAdd(RAdd(RMul(Rat(1, 2), RDiv(total_views, span)),
                       RMul(Rat(3, 10), RDiv(total_likes, span))),
                  RMul(Rat(1, 5), RMul(RDiv(R(Len(vids)), span), R(100000))))
        ELSE IF Len(h) >= 2
        THEN (IF h[Len(h)].value > h[1].value
              THEN R((h[Len(h)].value - h[1].value) * 100) ELSE Zero)
        ELSE R((100 - t.rank) * 10)

\* the raw velocities of the returned list, the TikTok ones as the claim
\* gives them
ClaimedVelocities ==
    [j \in 1..Len(trends) |->
        IF trends[j].platform = "tiktok" THEN ClaimedTiktokVelocity(trends[j])
        ELSE CalculateVelocityScore(calc, trends[j])]

\* C29: a TikTok creator with at least 2 related videos that have parseable
\* timestamps has velocity 0.5 * views/span + 0.3 * likes/span + 0.2 *
\* (videos/span * 100000), span the days between the earliest and the latest
\* video and at least 1; every other TikTok item, and a creator with fewer
\* than 2 timestamped videos, has max(0, last - first) * 100 when its
\* histogram has at least 2 points and (100 - rank) * 10 otherwise.  (The
\* returned velocity_score is the share of this value in the batch.)
C29_TiktokVelocityDispatch ==
    Returned /\ Scoring =>
        \A i \in 1..Len(trends) :
            trends[i].c.velocity_score = ShareOf(ClaimedVelocities[i], ClaimedVelocities)

\* a batch with a creator of three videos, two of them dated, a creator with
\* one dated video and a sound with a falling histogram has been scored
C29_ThreeBranchesInOneBatch ==
    /\ Returned
    /\ call.op = "unified"
    /\ \E i \in 1..Len(trends) :
           /\ IsKind(trends[i], "creator")
           /\ Len(trends[i].relatedVideos) = 3
           /\ Len(TimedVideos(trends[i])) = 2
           /\ RLt(Zero, trends[i].c.velocity_score)
    /\ \E i \in 1..Len(trends) :
           /\ IsKind(trends[i], "creator")
           /\ Len(TimedVideos(trends[i])) = 1
           /\ RLt(Zero, trends[i].c.velocity_score)
    /\ \E i \in 1..Len(trends) :
           /\ IsSound(trends[i])
           /\ Len(trends[i].trendingHistogram) = 2
           /\ trends[i].c.velocity_score = Zero


\* a platform's fetch fails when its service raises or its answer cannot be
\* normalized
Fails(p) == raw[p].raised \/ ~raw[p].wellformed

\* what a platform contributes to the result: nothing when its fetch failed,
\* its normalized records otherwise
Delivered(p) ==
    IF Fails(p) THEN <<>>
    ELSE CASE p = "google_trends" -> NormalizeGoogleTrends(raw[p].data)
           [] p = "youtube" -> NormalizeYoutubeTrends(raw[p].data)
           [] p = "tiktok" -> NormalizeTiktokTrends(raw[p].data)

\* C30: a failure of one platform's fetch or normalization does not end
\* aggregate_all_trends in error and does not stop the remaining fetches:
\* all three fetches are tried, the result holds every item of the
\* platforms that succeeded and none of a failed one, and total_count is
\* the sum of the three platform_counts.
C30_FailedPlatformLeavesTheOthers ==
    /\ Aggregated =>
           \A p \in Platforms :
               /\ flow.fetch[p] = (IF Fails(p) THEN "failed" ELSE "ok")
               /\ OnPlatform(flow.all_trends, p) = Delivered(p)
    /\ flow.pc = "score" =>
           /\ flow.aggregated # None
           /\ flow.aggregated[1].total_count = Len(flow.all_trends)
           /\ flow.aggregated[1].total_count =
                  flow.aggregated[1].platform_counts["google_trends"]
                  + flow.aggregated[1].platform_counts["youtube"]
                  + flow.aggregated[1].platform_counts["tiktok"]
    /\ flow.pc = "error" => flow.aggregated # None /\ flow.score_calls = 1

\* aggregate_all_trends has returned the items of two platforms although
\* the fetch between them failed
C30_MiddleFetchFailed ==
    /\ flow.pc = "score"
    /\ Fails("youtube")
    /\ flow.fetch["youtube"] = "failed"
    /\ Len(OnPlatform(flow.all_trends, "google_trends")) >= 1
    /\ Len(OnPlatform(flow.all_trends, "tiktok")) >= 1
    /\ flow.aggregated[1].platform_counts["youtube"] = 0
    /\ flow.aggregated[1].total_count >= 2

=============================================================================
